---- MODULE Spec2Model ----
(***************************************************************************)
(* Profile-scoped provider storage of codelessshipmore: the localStorage   *)
(* CRUD facade (LocalStorageProvider), the IndexedDB -> localStorage       *)
(* migration (LocalStorageMigration) and the React settings context        *)
(* (AISettingsProvider) that mirrors the persisted data in memory.         *)
(***************************************************************************)
EXTENDS Integers, Sequences, FiniteSets, TLC

VARIABLES
    profiles,              \* localStorage["ai-profiles"]:  id -> ProfileRecord
    providers,             \* localStorage["ai-providers"]: "profileId:providerId" -> ProviderConfigRecord
    metadata,              \* localStorage["ai-metadata"]:  key -> AppMetadata
    available,             \* what LocalStorageProvider.isAvailable() answers
    now,                   \* Date.now()
    nextUuid,              \* number of crypto.randomUUID() values handed out
    backup,                \* the last document produced by exportData(), and the
                           \* storage state it was produced from
    last,                  \* the last call made and how it ended
    legacyProfiles,        \* IndexedDB "ai-settings-db", store profiles
    legacyProviders,       \* IndexedDB "ai-settings-db", store provider_configs (keyed by record id)
    legacyMetadata,        \* IndexedDB "ai-settings-db", store app_metadata
    pc,                    \* position of the settings context: loading, migrated, ready
    session,               \* number of page loads so far
    currentProfile,        \* React state currentProfile
    profileList,           \* React state profiles
    profilesWithProviders, \* React state profilesWithProviders
    settings,              \* React state settings
    encryptedKeys,         \* React state encryptedKeys
    isLoading,             \* React state isLoading
    isFallbackMode,        \* React state isFallbackMode
    view,                  \* the state the callbacks of the last render closed over
    calls,                 \* callbacks invoked since the last render
    rateLimit,             \* sessionStorage["auth_rate_limit"].attempts
    authState,             \* sessionStorage["auth_authenticated"] = "true"
    clock,                 \* Date.now() as the login code reads it, in milliseconds
    pending,               \* login calls waiting for verifyPasscode: call -> passcode
    logins,                \* number of login calls made
    failedAt               \* times of the failed verifications since the last success

storageVars == <<profiles, providers, metadata>>
legacyVars == <<legacyProfiles, legacyProviders, legacyMetadata>>
reactVars == <<currentProfile, profileList, profilesWithProviders, settings,
               encryptedKeys, isLoading, isFallbackMode, view, calls>>
vars == <<profiles, providers, metadata, available, now, nextUuid, backup, last,
          legacyProfiles, legacyProviders, legacyMetadata, pc, session,
          currentProfile, profileList, profilesWithProviders, settings,
          encryptedKeys, isLoading, isFallbackMode, view, calls,
          rateLimit, authState, clock, pending, logins, failedAt>>
authVars == <<rateLimit, authState, clock, pending, logins, failedAt>>

\* nobody has tried to log in
InitAuth ==
    /\ rateLimit = <<>>
    /\ authState = FALSE
    /\ clock = 0
    /\ pending = <<>>
    /\ logins = 0
    /\ failedAt = <<>>

----------------------------------------------------------------------------
(* Bounds of the model *)

MaxUuid == 3
MaxTime == 1
MaxSessions == 2
MaxCalls == 2
MaxEnabled == 2
MaxLogins == 7
MaxPending == 2
MaxTicks == 2

(* Program constants *)

NameMax == 50
CurrentVersion == 2
MAX_ATTEMPTS == 5
WINDOW_MS == 60 * 1000

----------------------------------------------------------------------------
(* Values *)

\* crypto.randomUUID(): the n-th value handed out
Uuid(n) == "u" \o ToString(n)

\* `${profileId}:${providerId}`
CompositeKey(profileId, providerId) == profileId \o ":" \o providerId

\* a JavaScript undefined / null string
Undefined == <<"undefined">>

\* Strings that are trimmed or sliced are sequences of one-character strings
IsSpace(c) == c = " "

RECURSIVE TrimStart(_)
TrimStart(s) ==
    IF s /= <<>> /\ IsSpace(Head(s)) THEN TrimStart(Tail(s)) ELSE s

RECURSIVE TrimEnd(_)
TrimEnd(s) ==
    IF s /= <<>> /\ IsSpace(s[Len(s)]) THEN TrimEnd(SubSeq(s, 1, Len(s) - 1)) ELSE s

\* String.prototype.trim
Trim(s) == TrimEnd(TrimStart(s))

\* String.prototype.slice(0, n)
Slice(s, n) == IF Len(s) <= n THEN s ELSE SubSeq(s, 1, n)

\* description?.trim()
OptTrim(s) == IF s = Undefined THEN Undefined ELSE Trim(s)

\* Map helpers: obj[k] = v, delete obj[k]
Put(f, k, v) == [x \in DOMAIN f \cup {k} |-> IF x = k THEN v ELSE f[x]]

Remove(f, K) == [x \in DOMAIN f \ K |-> f[x]]

EmptyMap == <<>>

\* EncryptedData {iv, data}, or null
NullKey == [kind |-> "null", iv |-> 0, data |-> ""]

IVs == {1}

\* the keys a user types
Plaintexts == {"sk-0", "sk-1"}

\* the AES-GCM ciphertext of plaintext under the device key and iv
Ciphertext(plaintext, iv) == "aes-gcm(" \o ToString(iv) \o "," \o plaintext \o ")"

encrypt(plaintext, iv) == [kind |-> "enc", iv |-> iv, data |-> Ciphertext(plaintext, iv)]

DecryptionError == "#DecryptionError#"

decrypt(blob) ==
    IF blob.kind = "enc" /\ \E k \in Plaintexts : blob.data = Ciphertext(k, blob.iv)
    THEN CHOOSE k \in Plaintexts : blob.data = Ciphertext(k, blob.iv)
    ELSE DecryptionError

\* AppMetadata.value is `unknown`: a number or a string
NumValue(n) == [type |-> "number", num |-> n, str |-> ""]

StrValue(s) == [type |-> "string", num |-> 0, str |-> s]

NoValue == [type |-> "undefined", num |-> 0, str |-> ""]

----------------------------------------------------------------------------
(* LocalStorageProvider: every method takes the three buckets as one       *)
(* record (what getAllData() reads) and yields the buckets after the call, *)
(* the error thrown ("" when none) and the value returned.                 *)

NoError == ""

NotAvailable == "localStorage is not available"

QuotaExceeded == "Storage quota exceeded. Please clear some data."

CannotDeleteDefault == "Cannot delete default profile"

ProfileNotFound == "Profile not found"

ProviderConfigNotFound == "Provider config not found"

getAllData == [profiles |-> profiles, providers |-> providers, metadata |-> metadata]

Return(data, value) == [data |-> data, err |-> NoError, ret |-> value]

Throw(data, error) == [data |-> data, err |-> error, ret |-> <<>>]

\* saveData(key, data): `written` is FALSE when localStorage.setItem throws
\* the name is trimmed and stored at its full length
createProfileNoSlice(s, avail, input, uuid, t, written) ==
    IF ~avail THEN Throw(s, NotAvailable)
    ELSE LET profile == [id |-> uuid,
                         name |-> Trim(input.name),
                         description |-> OptTrim(input.description),
                         createdAt |-> t,
                         updatedAt |-> t,
                         isDefault |-> FALSE]
         IN  IF ~written THEN Throw(s, QuotaExceeded)
             ELSE Return([s EXCEPT !.profiles = Put(@, uuid, profile)], profile)

createProfile(s, avail, input, uuid, t, written) ==
    IF ~avail THEN Throw(s, NotAvailable)
    ELSE LET profile == [id |-> uuid,
                         name |-> Slice(Trim(input.name), NameMax),
                         description |-> OptTrim(input.description),
                         createdAt |-> t,
                         updatedAt |-> t,
                         isDefault |-> FALSE]
         IN  IF ~written THEN Throw(s, QuotaExceeded)
             ELSE Return([s EXCEPT !.profiles = Put(@, uuid, profile)], profile)

\* data: a partial record, `has` names the fields it carries
updateProfile(s, avail, id, data, t, written) ==
    IF ~avail THEN Throw(s, NotAvailable)
    ELSE IF id \notin DOMAIN s.profiles THEN Throw(s, ProfileNotFound)
    ELSE LET existing == s.profiles[id]
             updated == [id |-> existing.id,
                         name |-> IF "name" \in data.has THEN data.name ELSE existing.name,
                         description |-> IF "description" \in data.has
                                         THEN data.description ELSE existing.description,
                         createdAt |-> existing.createdAt,
                         updatedAt |-> t,
                         isDefault |-> IF "isDefault" \in data.has
                                       THEN data.isDefault ELSE existing.isDefault]
         IN  IF ~written THEN Throw(s, QuotaExceeded)
             ELSE Return([s EXCEPT !.profiles = Put(@, id, updated)], updated)

ProviderKeysOfProfile(s, id) ==
    {key \in DOMAIN s.providers : s.providers[key].profileId = id}

deleteProfileNoDefaultCheck(s, avail, id, failAt) ==
    IF ~avail THEN Throw(s, NotAvailable)
    ELSE IF id \notin DOMAIN s.profiles THEN Throw(s, ProfileNotFound)
    ELSE LET afterProfiles == [s EXCEPT !.profiles = Remove(@, {id})]
             afterProviders == [afterProfiles EXCEPT
                                   !.providers = Remove(@, ProviderKeysOfProfile(s, id))]
         IN  CASE failAt = 1 -> Throw(s, QuotaExceeded)
               [] failAt = 2 -> Throw(afterProfiles, QuotaExceeded)
               [] OTHER -> Return(afterProviders, Cardinality(ProviderKeysOfProfile(s, id)))

deleteProfileNoCascade(s, avail, id, failAt) ==
    IF ~avail THEN Throw(s, NotAvailable)
    ELSE IF id \notin DOMAIN s.profiles THEN Throw(s, ProfileNotFound)
    ELSE IF s.profiles[id].isDefault THEN Throw(s, CannotDeleteDefault)
    ELSE LET afterProfiles == [s EXCEPT !.profiles = Remove(@, {id})]
         IN  CASE failAt = 1 -> Throw(s, QuotaExceeded)
               [] failAt = 2 -> Throw(afterProfiles, QuotaExceeded)
               [] OTHER -> Return(afterProfiles, Cardinality(ProviderKeysOfProfile(s, id)))

\* failAt = 1: the write of PROFILES throws; failAt = 2: the write of PROVIDERS throws
deleteProfile(s, avail, id, failAt) ==
    IF ~avail THEN Throw(s, NotAvailable)
    ELSE IF id \notin DOMAIN s.profiles THEN Throw(s, ProfileNotFound)
    ELSE IF s.profiles[id].isDefault THEN Throw(s, CannotDeleteDefault)
    ELSE LET afterProfiles == [s EXCEPT !.profiles = Remove(@, {id})]
             afterProviders == [afterProfiles EXCEPT
                                   !.providers = Remove(@, ProviderKeysOfProfile(s, id))]
         IN  CASE failAt = 1 -> Throw(s, QuotaExceeded)
               [] failAt = 2 -> Throw(afterProfiles, QuotaExceeded)
               [] OTHER -> Return(afterProviders, Cardinality(ProviderKeysOfProfile(s, id)))

\* no profile is ever found by id
getProfileNever(s, id) == {}

getProfile(s, id) == IF id \in DOMAIN s.profiles THEN {s.profiles[id]} ELSE {}

getAllProfiles(s) == {s.profiles[id] : id \in DOMAIN s.profiles}

saveProfile(s, avail, profile, written) ==
    IF ~avail THEN Throw(s, NotAvailable)
    ELSE IF ~written THEN Throw(s, QuotaExceeded)
    ELSE Return([s EXCEPT !.profiles = Put(@, profile.id, profile)], profile)

\* Object.values(data.profiles).find(p => p.isDefault): the first in key order
DefaultProfiles(s) == {id \in DOMAIN s.profiles : s.profiles[id].isDefault}

\* a default profile is created without looking for one
getDefaultProfileAlwaysCreating(s, avail, uuid, t, written) ==
    IF ~avail THEN Throw(s, NotAvailable)
    ELSE LET defaultProfile == [id |-> uuid,
                                name |-> <<"D", "e", "f", "a", "u", "l", "t">>,
                                description |-> Undefined,
                                createdAt |-> t,
                                updatedAt |-> t,
                                isDefault |-> TRUE]
         IN  IF ~written THEN Throw(s, QuotaExceeded)
             ELSE Return([s EXCEPT !.profiles = Put(@, uuid, defaultProfile)], defaultProfile)

getDefaultProfile(s, avail, uuid, t, written) ==
    IF ~avail THEN Throw(s, NotAvailable)
    ELSE IF DefaultProfiles(s) /= {}
    THEN Return(s, s.profiles[CHOOSE id \in DefaultProfiles(s) : TRUE])
    ELSE LET defaultProfile == [id |-> uuid,
                                name |-> <<"D", "e", "f", "a", "u", "l", "t">>,
                                description |-> Undefined,
                                createdAt |-> t,
                                updatedAt |-> t,
                                isDefault |-> TRUE]
         IN  IF ~written THEN Throw(s, QuotaExceeded)
             ELSE Return([s EXCEPT !.profiles = Put(@, uuid, defaultProfile)], defaultProfile)


----------------------------------------------------------------------------
(* Provider configs *)

UndefinedStr == "#undefined#"

\* a property the object literal does not carry at all
AbsentStr == "#absent#"

Absent == <<"#absent#">>

\* {...existing, ...config}: a property config carries wins, also when undefined
Spread(old, new, absent) == IF new = absent THEN old ELSE new

NewOr(new, absent, undef) == IF new = absent THEN undef ELSE new

saveProviderConfigReplacing(s, avail, config, uuid, t, written) ==
    IF ~avail THEN Throw(s, NotAvailable)
    ELSE LET compositeKey == CompositeKey(config.profileId, config.providerId)
             record == [id |-> uuid,
                        profileId |-> config.profileId,
                        providerId |-> config.providerId,
                        providerType |-> config.providerType,
                        apiKey |-> config.apiKey,
                        model |-> config.model,
                        baseUrl |-> config.baseUrl,
                        enabled |-> config.enabled,
                        customName |-> NewOr(config.customName, AbsentStr, UndefinedStr),
                        customModels |-> NewOr(config.customModels, Absent, Undefined),
                        createdAt |-> t,
                        updatedAt |-> t]
         IN  IF ~written THEN Throw(s, QuotaExceeded)
             ELSE Return([s EXCEPT !.providers = Put(@, compositeKey, record)], record)

saveProviderConfig(s, avail, config, uuid, t, written) ==
    IF ~avail THEN Throw(s, NotAvailable)
    ELSE LET compositeKey == CompositeKey(config.profileId, config.providerId)
             exists == compositeKey \in DOMAIN s.providers
             existing == s.providers[compositeKey]
             record ==
                 IF exists
                 THEN [id |-> existing.id,
                       profileId |-> config.profileId,
                       providerId |-> config.providerId,
                       providerType |-> config.providerType,
                       apiKey |-> config.apiKey,
                       model |-> config.model,
                       baseUrl |-> config.baseUrl,
                       enabled |-> config.enabled,
                       customName |-> Spread(existing.customName, config.customName, AbsentStr),
                       customModels |-> Spread(existing.customModels, config.customModels, Absent),
                       createdAt |-> existing.createdAt,
                       updatedAt |-> t]
                 ELSE [id |-> uuid,
                       profileId |-> config.profileId,
                       providerId |-> config.providerId,
                       providerType |-> config.providerType,
                       apiKey |-> config.apiKey,
                       model |-> config.model,
                       baseUrl |-> config.baseUrl,
                       enabled |-> config.enabled,
                       customName |-> NewOr(config.customName, AbsentStr, UndefinedStr),
                       customModels |-> NewOr(config.customModels, Absent, Undefined),
                       createdAt |-> t,
                       updatedAt |-> t]
         IN  IF ~written THEN Throw(s, QuotaExceeded)
             ELSE Return([s EXCEPT !.providers = Put(@, compositeKey, record)], record)

\* every profile's config of the provider is deleted
deleteProviderConfigOfAllProfiles(s, avail, id, written) ==
    IF ~avail THEN Throw(s, NotAvailable)
    ELSE IF id \notin DOMAIN s.providers THEN Throw(s, ProviderConfigNotFound)
    ELSE IF ~written THEN Throw(s, QuotaExceeded)
    ELSE Return([s EXCEPT !.providers =
                     Remove(@, {k \in DOMAIN @ : @[k].providerId = @[id].providerId})],
                <<>>)

\* a missing record is not reported
deleteProviderConfigIgnoringMissing(s, avail, id, written) ==
    IF ~avail THEN Throw(s, NotAvailable)
    ELSE IF ~written THEN Throw(s, QuotaExceeded)
    ELSE Return([s EXCEPT !.providers = Remove(@, {id})], <<>>)

deleteProviderConfig(s, avail, id, written) ==
    IF ~avail THEN Throw(s, NotAvailable)
    ELSE IF id \notin DOMAIN s.providers THEN Throw(s, ProviderConfigNotFound)
    ELSE IF ~written THEN Throw(s, QuotaExceeded)
    ELSE Return([s EXCEPT !.providers = Remove(@, {id})], <<>>)

\* data: Partial<Omit<ProviderConfigRecord, "id" | "createdAt">>, `has` names
\* the properties it carries; the record stays under the key it was found at
updateProviderConfig(s, avail, id, data, t, written) ==
    IF ~avail THEN Throw(s, NotAvailable)
    ELSE IF id \notin DOMAIN s.providers THEN Throw(s, ProviderConfigNotFound)
    ELSE LET existing == s.providers[id]
             updated ==
                 [existing EXCEPT
                     !.profileId = IF "profileId" \in data.has THEN data.profileId ELSE @,
                     !.providerId = IF "providerId" \in data.has THEN data.providerId ELSE @,
                     !.model = IF "model" \in data.has THEN data.model ELSE @,
                     !.enabled = IF "enabled" \in data.has THEN data.enabled ELSE @,
                     !.updatedAt = t]
         IN  IF ~written THEN Throw(s, QuotaExceeded)
             ELSE Return([s EXCEPT !.providers = Put(@, id, updated)], updated)

getProviderConfigsOfAllProfiles(s, profileId) ==
    {s.providers[key] : key \in DOMAIN s.providers}

getProviderConfigsByProfile(s, profileId) ==
    {s.providers[key] : key \in ProviderKeysOfProfile(s, profileId)}

getProviderConfig(s, profileId, providerId) ==
    IF CompositeKey(profileId, providerId) \in DOMAIN s.providers
    THEN {s.providers[CompositeKey(profileId, providerId)]}
    ELSE {}

(* Metadata *)

setMetadata(s, avail, key, value, t, written) ==
    IF ~avail THEN Throw(s, NotAvailable)
    ELSE IF ~written THEN Throw(s, QuotaExceeded)
    ELSE Return([s EXCEPT !.metadata = Put(@, key, [key |-> key, value |-> value, updatedAt |-> t])],
                <<>>)

getMetadata(s, key) == IF key \in DOMAIN s.metadata THEN s.metadata[key].value ELSE NoValue

getSchemaVersion(s) ==
    LET version == getMetadata(s, "schema_version")
    IN  IF version.type = "number" THEN version.num ELSE 0

setSchemaVersion(s, avail, version, t, written) ==
    setMetadata(s, avail, "schema_version", NumValue(version), t, written)

(* Utility methods *)

clearAll(s, avail) ==
    IF ~avail THEN Throw(s, NotAvailable)
    ELSE Return([profiles |-> EmptyMap, providers |-> EmptyMap, metadata |-> EmptyMap], <<>>)

\* JSON.stringify drops the properties whose value is undefined; JSON.parse
\* yields objects on which those properties read as undefined again
JsonProfile(p) == [p EXCEPT !.description = IF @ = Undefined THEN Absent ELSE @]

JsonProvider(c) ==
    [c EXCEPT !.baseUrl = IF @ = UndefinedStr THEN AbsentStr ELSE @,
              !.customName = IF @ = UndefinedStr THEN AbsentStr ELSE @,
              !.customModels = IF @ = Undefined THEN Absent ELSE @]

ParsedProfile(j) == [j EXCEPT !.description = IF @ = Absent THEN Undefined ELSE @]

ParsedProvider(j) ==
    [j EXCEPT !.baseUrl = IF @ = AbsentStr THEN UndefinedStr ELSE @,
              !.customName = IF @ = AbsentStr THEN UndefinedStr ELSE @,
              !.customModels = IF @ = Absent THEN Undefined ELSE @]

exportData(s) ==
    [profiles |-> [id \in DOMAIN s.profiles |-> JsonProfile(s.profiles[id])],
     providers |-> [key \in DOMAIN s.providers |-> JsonProvider(s.providers[key])],
     metadata |-> s.metadata]

InvalidDataFormat == "Failed to import data: Error: Invalid data format"

\* JSON.parse(jsonData) of a well-formed document
ParsedDocument(jsonData) ==
    [profiles |-> [id \in DOMAIN jsonData.profiles |->
                       ParsedProfile(jsonData.profiles[id])],
     providers |-> [key \in DOMAIN jsonData.providers |->
                       ParsedProvider(jsonData.providers[key])],
     metadata |-> jsonData.metadata]

\* the imported buckets are merged into the stored ones
importDataMerging(s, avail, jsonData, failAt) ==
    IF ~avail THEN Throw(s, NotAvailable)
    ELSE IF ~({"profiles", "providers", "metadata"} \subseteq DOMAIN jsonData)
    THEN Throw(s, InvalidDataFormat)
    ELSE LET data == ParsedDocument(jsonData)
             one == [s EXCEPT !.profiles = data.profiles @@ @]
             two == [one EXCEPT !.providers = data.providers @@ @]
             three == [two EXCEPT !.metadata = data.metadata @@ @]
         IN  CASE failAt = 1 -> Throw(s, QuotaExceeded)
               [] failAt = 2 -> Throw(one, QuotaExceeded)
               [] failAt = 3 -> Throw(two, QuotaExceeded)
               [] OTHER -> Return(three, <<>>)

\* failAt = 1, 2, 3: the write of PROFILES, PROVIDERS, METADATA throws
importData(s, avail, jsonData, failAt) ==
    IF ~avail THEN Throw(s, NotAvailable)
    ELSE IF ~({"profiles", "providers", "metadata"} \subseteq DOMAIN jsonData)
    THEN Throw(s, InvalidDataFormat)
    ELSE LET data == ParsedDocument(jsonData)
             one == [s EXCEPT !.profiles = data.profiles]
             two == [one EXCEPT !.providers = data.providers]
         IN  CASE failAt = 1 -> Throw(s, QuotaExceeded)
               [] failAt = 2 -> Throw(one, QuotaExceeded)
               [] failAt = 3 -> Throw(two, QuotaExceeded)
               [] OTHER -> Return(data, <<>>)

\* a JSON document that is not a backup
ForeignDocument == [profiles |-> EmptyMap]

----------------------------------------------------------------------------
(* Initial state: fresh localStorage, a freshly mounted AISettingsProvider *)

NoCall == [op |-> "", id |-> "", err |-> NoError, n |-> 0, arg |-> ""]

Call(op, id, err, n) == [op |-> op, id |-> id, err |-> err, n |-> n, arg |-> ""]

CallWith(op, id, err, n, arg) == [op |-> op, id |-> id, err |-> err, n |-> n, arg |-> arg]

InitialSettings == [profileId |-> "", providers |-> EmptyMap, enabledProviders |-> <<>>]

Closure == [currentProfile |-> currentProfile, settings |-> settings,
            encryptedKeys |-> encryptedKeys, isLoading |-> isLoading,
            isFallbackMode |-> isFallbackMode]

InitialClosure == [currentProfile |-> {}, settings |-> InitialSettings,
                   encryptedKeys |-> EmptyMap, isLoading |-> TRUE,
                   isFallbackMode |-> FALSE]

InitReact ==
    /\ currentProfile = {}
    /\ profileList = {}
    /\ profilesWithProviders = {}
    /\ settings = InitialSettings
    /\ encryptedKeys = EmptyMap
    /\ isLoading = TRUE
    /\ isFallbackMode = FALSE
    /\ view = InitialClosure
    /\ calls = 0

InitStorage ==
    /\ profiles = EmptyMap
    /\ providers = EmptyMap
    /\ metadata = EmptyMap
    /\ now = 0
    /\ nextUuid = 0
    /\ backup = [json |-> exportData(getAllData), of |-> getAllData]
    /\ last = NoCall

----------------------------------------------------------------------------
(* The storage provider used directly, as testLocalStorage and             *)
(* BackupRestore use it                                                    *)

BuiltinIds == {"openai", "anthropic"}

ProfileInputs ==
    { [name |-> <<" ", "A", " ">>, description |-> Undefined] }

ProfilePatches ==
    { [has |-> {"name"}, name |-> <<"B">>, description |-> Undefined, isDefault |-> FALSE] }

\* a profile as the previous generation's database holds it
LegacyDefault ==
    [id |-> "L1", name |-> <<"D", "e", "f", "a", "u", "l", "t">>, description |-> Undefined,
     createdAt |-> 0, updatedAt |-> 0, isDefault |-> TRUE]

ModelNames == {"gpt-4", "gpt-4o"}

ConfigInputs(profileIds) ==
    [profileId : profileIds, providerId : BuiltinIds, providerType : {"builtin"},
     apiKey : {NullKey}, model : {"gpt-4"}, baseUrl : {UndefinedStr},
     enabled : {FALSE}, customName : {AbsentStr}, customModels : {Absent}]

UpsertInputs(profileIds) ==
    [profileId : profileIds, providerId : BuiltinIds, providerType : {"builtin"},
     apiKey : {NullKey}, model : ModelNames, baseUrl : {UndefinedStr},
     enabled : {FALSE}, customName : {AbsentStr}, customModels : {Absent}]

\* what every call of the storage provider leaves alone
StorageFrame == UNCHANGED <<available, legacyVars, pc, session, authVars, reactVars>>

Stored(r) ==
    /\ profiles' = r.data.profiles
    /\ providers' = r.data.providers
    /\ metadata' = r.data.metadata

StorageCreateProfileOf(input, written) ==
    /\ nextUuid < MaxUuid
    /\ LET r == createProfile(getAllData, available, input, Uuid(nextUuid + 1), now, written)
       IN  /\ Stored(r)
           /\ last' = Call("createProfile", Uuid(nextUuid + 1), r.err, 0)
    /\ nextUuid' = nextUuid + 1
    /\ UNCHANGED <<now, backup>>
    /\ StorageFrame

StorageCreateProfile ==
    \E input \in ProfileInputs, written \in BOOLEAN : StorageCreateProfileOf(input, written)

StorageUpdateProfileOf(id, data, written) ==
    /\ LET r == updateProfile(getAllData, available, id, data, now, written)
       IN  /\ Stored(r)
           /\ last' = Call("updateProfile", id, r.err, 0)
    /\ UNCHANGED <<now, nextUuid, backup>>
    /\ StorageFrame

StorageUpdateProfile ==
    \E id \in DOMAIN profiles, data \in ProfilePatches, written \in BOOLEAN :
        StorageUpdateProfileOf(id, data, written)

StorageDeleteProfileOf(id, failAt) ==
    /\ LET r == deleteProfile(getAllData, available, id, failAt)
       IN  /\ Stored(r)
           /\ last' = Call("deleteProfile", id, r.err, IF r.err = NoError THEN r.ret ELSE 0)
    /\ UNCHANGED <<now, nextUuid, backup>>
    /\ StorageFrame

StorageDeleteProfile ==
    \E id \in DOMAIN profiles \cup {Uuid(MaxUuid)}, failAt \in 0..2 :
        StorageDeleteProfileOf(id, failAt)

StorageSaveProfile ==
    \E written \in BOOLEAN :
        /\ LET r == saveProfile(getAllData, available, LegacyDefault, written)
           IN  /\ Stored(r)
               /\ last' = Call("saveProfile", LegacyDefault.id, r.err, 0)
        /\ UNCHANGED <<now, nextUuid, backup>>
        /\ StorageFrame

StorageGetDefaultProfile ==
    \E written \in BOOLEAN :
        /\ DefaultProfiles(getAllData) /= {} \/ nextUuid < MaxUuid
        /\ LET r == getDefaultProfile(getAllData, available, Uuid(nextUuid + 1), now, written)
           IN  /\ Stored(r)
               /\ last' = Call("getDefaultProfile",
                               IF r.err = NoError THEN r.ret.id ELSE "", r.err, 0)
               /\ nextUuid' = IF DefaultProfiles(getAllData) = {} THEN nextUuid + 1 ELSE nextUuid
        /\ UNCHANGED <<now, backup>>
        /\ StorageFrame

StorageSaveProviderConfigOf(config, written) ==
    /\ \/ CompositeKey(config.profileId, config.providerId) \in DOMAIN providers
       \/ nextUuid < MaxUuid
    /\ LET r == saveProviderConfig(getAllData, available, config, Uuid(nextUuid + 1),
                                   now, written)
           key == CompositeKey(config.profileId, config.providerId)
       IN  /\ Stored(r)
           /\ last' = Call("saveProviderConfig", key, r.err,
                           IF key \in DOMAIN providers THEN 1 ELSE 0)
           /\ nextUuid' = IF key \in DOMAIN providers THEN nextUuid ELSE nextUuid + 1
    /\ UNCHANGED <<now, backup>>
    /\ StorageFrame

StorageSaveProviderConfig ==
    \E config \in ConfigInputs(DOMAIN profiles), written \in BOOLEAN :
        StorageSaveProviderConfigOf(config, written)

StorageUpsertProviderConfig ==
    \E config \in UpsertInputs(DOMAIN profiles), written \in BOOLEAN :
        StorageSaveProviderConfigOf(config, written)

StorageDeleteProviderConfig ==
    \E id \in DOMAIN providers, written \in BOOLEAN :
        /\ LET r == deleteProviderConfig(getAllData, available, id, written)
           IN  /\ Stored(r)
               /\ last' = Call("deleteProviderConfig", id, r.err, 0)
        /\ UNCHANGED <<now, nextUuid, backup>>
        /\ StorageFrame

\* patches of the fields the context edits
FieldPatches(profileIds) ==
    { [has |-> {"enabled"}, profileId |-> "", providerId |-> "", model |-> "",
       enabled |-> TRUE],
      [has |-> {"model"}, profileId |-> "", providerId |-> "", model |-> "gpt-4o",
       enabled |-> FALSE] }

\* what the parameter type of updateProviderConfig admits: every field but
\* id and createdAt, profileId and providerId among them
ConfigPatches(profileIds) ==
    FieldPatches(profileIds)
        \cup { [has |-> {"profileId"}, profileId |-> profileId, providerId |-> "",
                model |-> "", enabled |-> FALSE] : profileId \in profileIds }
        \cup { [has |-> {"providerId"}, profileId |-> "", providerId |-> providerId,
                model |-> "", enabled |-> FALSE] : providerId \in BuiltinIds }

StorageUpdateProviderConfig ==
    \E id \in DOMAIN providers \cup {CompositeKey(Uuid(MaxUuid), "openai")},
       data \in ConfigPatches(DOMAIN profiles), written \in BOOLEAN :
        /\ LET r == updateProviderConfig(getAllData, available, id, data, now, written)
           IN  /\ Stored(r)
               /\ last' = Call("updateProviderConfig", id, r.err, 0)
        /\ UNCHANGED <<now, nextUuid, backup>>
        /\ StorageFrame

StorageExportData ==
    /\ backup' = [json |-> exportData(getAllData), of |-> getAllData]
    /\ last' = Call("exportData", "", NoError, 0)
    /\ UNCHANGED <<storageVars, now, nextUuid>>
    /\ StorageFrame

StorageImportData ==
    \E failAt \in 0..3, jsonData \in {backup.json, ForeignDocument} :
        /\ LET r == importData(getAllData, available, jsonData, failAt)
           IN  /\ Stored(r)
               /\ last' = CallWith("importData", "", r.err, 0,
                                   IF jsonData = backup.json THEN "backup" ELSE "foreign")
        /\ UNCHANGED <<now, nextUuid, backup>>
        /\ StorageFrame

StorageClearAll ==
    /\ LET r == clearAll(getAllData, available)
       IN  /\ Stored(r)
           /\ last' = Call("clearAll", "", r.err, 0)
    /\ UNCHANGED <<now, nextUuid, backup>>
    /\ StorageFrame

\* time passes between two calls
Tick ==
    /\ now < MaxTime
    /\ now' = now + 1
    /\ UNCHANGED <<storageVars, nextUuid, backup, last>>
    /\ StorageFrame

InitStorageSpec ==
    /\ InitStorage
    /\ InitReact
    /\ available = TRUE
    /\ legacyProfiles = EmptyMap
    /\ legacyProviders = EmptyMap
    /\ legacyMetadata = EmptyMap
    /\ pc = "loading"
    /\ session = 1
    /\ InitAuth

NextStorage ==
    \/ StorageCreateProfile
    \/ StorageUpdateProfile
    \/ StorageDeleteProfile
    \/ StorageGetDefaultProfile
    \/ StorageSaveProfile
    \/ StorageSaveProviderConfig
    \/ StorageDeleteProviderConfig
    \/ StorageClearAll

SpecStorage == InitStorageSpec /\ [][NextStorage]_vars

NextDelete ==
    \/ StorageCreateProfile
    \/ StorageGetDefaultProfile
    \/ StorageSaveProviderConfig
    \/ StorageDeleteProfile

SpecDelete == InitStorageSpec /\ [][NextDelete]_vars

NextUpsert ==
    \/ StorageCreateProfile
    \/ StorageUpsertProviderConfig
    \/ StorageDeleteProviderConfig
    \/ Tick

SpecUpsert == InitStorageSpec /\ [][NextUpsert]_vars


\* names and descriptions as a caller may pass them: padded with blanks,
\* longer than the limit, exactly at the limit
LongName == <<" ">> \o [i \in 1..(NameMax + 2) |-> "x"] \o <<" ">>

NameInputs == { <<" ", "A", " ">>, LongName, [i \in 1..NameMax |-> "y"] }

DescriptionInputs == { Undefined, <<" ", "d", " ">> }

NamedInputs == [name : NameInputs, description : DescriptionInputs]

NamePatches ==
    { [has |-> {"name", "description"}, name |-> Trim(name), description |-> <<"d">>,
       isDefault |-> FALSE] : name \in NameInputs }

StorageCreateNamedProfile ==
    \E input \in NamedInputs, written \in BOOLEAN : StorageCreateProfileOf(input, written)

StorageRenameProfile ==
    \E id \in DOMAIN profiles, data \in NamePatches, written \in BOOLEAN :
        StorageUpdateProfileOf(id, data, written)

NextNames ==
    \/ StorageCreateNamedProfile
    \/ StorageRenameProfile

SpecNames == InitStorageSpec /\ [][NextNames]_vars

\* backups taken and restored between other calls
NextBackup ==
    \/ StorageCreateProfile
    \/ StorageGetDefaultProfile
    \/ StorageSaveProviderConfig
    \/ StorageDeleteProfile
    \/ StorageClearAll
    \/ StorageExportData
    \/ StorageImportData

SpecBackup == InitStorageSpec /\ [][NextBackup]_vars

----------------------------------------------------------------------------
(* Claims about the storage provider *)

Buckets == <<profiles, providers, metadata>>

\* C1: once a profile is persisted, the 'ai-profiles' bucket holds exactly one
\* profile with isDefault = true in every reachable state.
C1_ExactlyOneDefault ==
    profiles /= EmptyMap => Cardinality(DefaultProfiles(getAllData)) = 1

\* C2: deleteProfile(P.id) of a profile P with isDefault = true fails with an
\* error and leaves the profiles, provider-configs and metadata buckets as they were.
C2_DeleteDefaultRejected ==
    [][\A id \in DOMAIN profiles, failAt \in 0..2 :
          (profiles[id].isDefault /\ last'.op = "deleteProfile" /\ last'.id = id
             /\ StorageDeleteProfileOf(id, failAt))
              => (last'.err /= NoError /\ Buckets' = Buckets)]_vars

C2_Witness ==
    /\ last.op = "deleteProfile"
    /\ last.err = CannotDeleteDefault
    /\ providers /= EmptyMap

\* C3: after deleteProfile(P.id) completes for a non-default profile P with any
\* number of provider configs, getProviderConfigsByProfile(P.id) is empty and P
\* is absent from getAllProfiles().
C3_DeleteCascades ==
    [][\A id \in DOMAIN profiles, failAt \in 0..2 :
          (last'.op = "deleteProfile" /\ last'.id = id /\ last'.err = NoError
             /\ StorageDeleteProfileOf(id, failAt))
              => LET after == [profiles |-> profiles', providers |-> providers',
                               metadata |-> metadata']
                 IN  /\ ~profiles[id].isDefault
                     /\ getProviderConfigsByProfile(after, id) = {}
                     /\ \A p \in getAllProfiles(after) : p.id /= id]_vars

C3_Witness ==
    /\ last.op = "deleteProfile"
    /\ last.err = NoError
    /\ last.n >= 2

\* C4: saveProviderConfig is an upsert by composite key: after a call for
\* (profileId, providerId) exactly one record exists for the pair, its model is
\* the model of that call, and a record that existed keeps its id and createdAt.
C4_UpsertByCompositeKey ==
    [][\A config \in UpsertInputs(DOMAIN profiles), written \in BOOLEAN :
          (last'.op = "saveProviderConfig" /\ last'.err = NoError
             /\ last'.id = CompositeKey(config.profileId, config.providerId)
             /\ StorageSaveProviderConfigOf(config, written))
              => LET key == CompositeKey(config.profileId, config.providerId)
                     same == {k \in DOMAIN providers' :
                                 /\ providers'[k].profileId = config.profileId
                                 /\ providers'[k].providerId = config.providerId}
                 IN  /\ same = {key}
                     /\ providers'[key].model = config.model
                     /\ DOMAIN providers' = DOMAIN providers \cup {key}
                     /\ key \in DOMAIN providers
                            => /\ providers'[key].id = providers[key].id
                               /\ providers'[key].createdAt = providers[key].createdAt
                     /\ key \notin DOMAIN providers
                            => /\ \A k \in DOMAIN providers :
                                      providers[k].id /= providers'[key].id
                               /\ providers'[key].createdAt = now]_vars

C4_Witness ==
    /\ last.op = "saveProviderConfig"
    /\ last.err = NoError
    /\ last.n = 1
    /\ providers[last.id].updatedAt > providers[last.id].createdAt
    /\ providers[last.id].model = "gpt-4o"
    /\ Cardinality(DOMAIN providers) >= 2

----------------------------------------------------------------------------
(* AISettingsProvider: the settings context.  Every callback reads the     *)
(* state its render closed over (view) and posts updates to the React      *)
(* state; Render hands the callbacks the state as it now is.               *)

\* PROVIDERS: the built-in provider definitions
PROVIDERS ==
    [id \in {"openai", "anthropic", "google", "anthropic-custom", "cerebras"} |->
        CASE id = "openai" ->
                 [defaultModel |-> "gpt-4o-mini", fixedBaseUrl |-> UndefinedStr]
          [] id = "anthropic" ->
                 [defaultModel |-> "claude-sonnet-4-20250514", fixedBaseUrl |-> UndefinedStr]
          [] id = "google" ->
                 [defaultModel |-> "gemini-3-flash-preview",
                  fixedBaseUrl |-> "https://generativelanguage.googleapis.com/v1beta/openai"]
          [] id = "anthropic-custom" ->
                 [defaultModel |-> "claude-sonnet-4-20250514", fixedBaseUrl |-> UndefinedStr]
          [] OTHER ->
                 [defaultModel |-> "llama-3.3-70b", fixedBaseUrl |-> "https://api.cerebras.ai/v1"]]

\* a || b on strings
OrStr(a, b) == IF a \in {"", UndefinedStr, AbsentStr} THEN b ELSE a

NoCurrentProfile == "No current profile"

ProviderAlreadyExists == "Provider already exists"

ProviderNotFound == "Provider not found"

InvalidProfileId == "Invalid profile ID"

\* the position of an id among the ids handed out: Object.values() lists a
\* bucket in insertion order, which is the order in which record ids were drawn
UuidIndex(id) ==
    IF \E n \in 1..(MaxUuid + 1) : Uuid(n) = id
    THEN CHOOSE n \in 1..(MaxUuid + 1) : Uuid(n) = id
    ELSE 0

RECURSIVE InOrder(_)
InOrder(records) ==
    IF records = {} THEN <<>>
    ELSE LET first == CHOOSE r \in records :
                          \A o \in records : UuidIndex(r.id) <= UuidIndex(o.id)
         IN  <<first>> \o InOrder(records \ {first})

\* the configs loadProviderConfigs keeps: custom ones and known built-in ones
LoadedConfigs(s, profileId) ==
    {config \in getProviderConfigsByProfile(s, profileId) :
        config.providerType = "custom" \/ config.providerId \in DOMAIN PROVIDERS}

baseProvider(config) ==
    IF config.providerType = "custom"
    THEN [id |-> config.providerId,
          apiKey |-> "",
          model |-> config.model,
          baseUrl |-> config.baseUrl,
          enabled |-> config.enabled,
          providerType |-> "custom",
          customName |-> config.customName,
          customModels |-> config.customModels]
    ELSE [id |-> config.providerId,
          apiKey |-> "",
          model |-> OrStr(config.model, PROVIDERS[config.providerId].defaultModel),
          baseUrl |-> config.baseUrl,
          enabled |-> config.enabled,
          providerType |-> "builtin",
          customName |-> AbsentStr,
          customModels |-> Absent]

\* providers[providerId] = baseProvider: a later config of the same id wins
LoadedSettings(s, profileId) ==
    LET configs == LoadedConfigs(s, profileId)
        ids == {config.providerId : config \in configs}
        ordered == InOrder({config \in configs : config.enabled})
        lastOf(id) == CHOOSE config \in configs :
                          /\ config.providerId = id
                          /\ \A o \in configs : o.providerId = id
                                => UuidIndex(o.id) <= UuidIndex(config.id)
    IN  [profileId |-> profileId,
         providers |-> [id \in ids |-> baseProvider(lastOf(id))],
         enabledProviders |-> [i \in 1..Len(ordered) |-> ordered[i].providerId]]

LoadedKeys(s, profileId) ==
    LET withKey == {config \in LoadedConfigs(s, profileId) : config.apiKey /= NullKey}
        lastOf(id) == CHOOSE config \in withKey :
                          /\ config.providerId = id
                          /\ \A o \in withKey : o.providerId = id
                                => UuidIndex(o.id) <= UuidIndex(config.id)
    IN  [id \in {config.providerId : config \in withKey} |-> lastOf(id).apiKey]

\* loadProviderConfigs(profileId): the state it posts, then the metadata write
loadProviderConfigs(s, avail, profileId, t, written) ==
    IF profileId = "" THEN Throw(s, InvalidProfileId) @@ [posted |-> FALSE]
    ELSE IF ~avail THEN Throw(s, NotAvailable) @@ [posted |-> FALSE]
    ELSE setMetadata(s, avail, "active_profile_id", StrValue(profileId), t, written)
           @@ [posted |-> TRUE,
               settings |-> LoadedSettings(s, profileId),
               keys |-> LoadedKeys(s, profileId)]

\* what loadProfilesWithProviders() computes for one profile
Summary(s, profile) ==
    LET configs == getProviderConfigsByProfile(s, profile.id)
        configuredProviders ==
            {[id |-> config.providerId,
              model |-> config.model,
              enabled |-> config.enabled,
              isCustom |-> config.providerType = "custom",
              hasApiKey |-> config.apiKey /= NullKey] : config \in configs}
        enabledProviders == {c \in configuredProviders : c.enabled}
    IN  [profile |-> profile,
         configuredProviders |-> configuredProviders,
         hasAnyEnabledProvider |-> enabledProviders /= {},
         providerCount |-> Cardinality(configuredProviders),
         enabledProviderCount |-> Cardinality(enabledProviders)]

Summaries(s) == {Summary(s, profile) : profile \in getAllProfiles(s)}

----------------------------------------------------------------------------
(* LocalStorageMigration: the previous generation's IndexedDB database     *)
(* "ai-settings-db" is read through ProviderDB and copied into localStorage *)

MigrationFailed == "Migration failed"

\* IndexedDB getAll() lists a store in key order
KeyOrder == <<"L1", "L2", "c1", "c2">>

Rank(id) == CHOOSE i \in 1..Len(KeyOrder) : KeyOrder[i] = id

RECURSIVE InKeyOrder(_)
InKeyOrder(records) ==
    IF records = {} THEN <<>>
    ELSE LET first == CHOOSE r \in records : \A o \in records : Rank(r.id) <= Rank(o.id)
         IN  <<first>> \o InKeyOrder(records \ {first})

\* ProviderDB.getAllProfiles()
LegacyAllProfiles(legacy) ==
    InKeyOrder({legacy.profiles[id] : id \in DOMAIN legacy.profiles})

\* ProviderDB.getProviderConfigsByProfile(profileId)
LegacyConfigsByProfile(legacy, profileId) ==
    InKeyOrder({legacy.providers[id] : id \in {c \in DOMAIN legacy.providers :
                                                  legacy.providers[c].profileId = profileId}})

RECURSIVE LegacyConfigsOf(_, _)
LegacyConfigsOf(legacy, profileSeq) ==
    IF profileSeq = <<>> THEN <<>>
    ELSE LegacyConfigsByProfile(legacy, Head(profileSeq).id)
            \o LegacyConfigsOf(legacy, Tail(profileSeq))

\* ProviderDB.getMetadata(key): result ? result.value : null
LegacyMetadata(legacy, key) ==
    IF key \in DOMAIN legacy.metadata THEN legacy.metadata[key].value ELSE NoValue

\* ProviderDB.getSchemaVersion(): result?.value || 0
LegacySchemaVersion(legacy) ==
    LET value == LegacyMetadata(legacy, "schema_version")
    IN  IF value = NoValue THEN NumValue(0) ELSE value

getLegacyData ==
    [profiles |-> legacyProfiles, providers |-> legacyProviders, metadata |-> legacyMetadata]

\* the writes migrate() makes, in order; each is applied to [data, n], the
\* buckets and the number of uuids drawn so far
MigrationWrites(legacy) ==
    LET profileSeq == LegacyAllProfiles(legacy)
        configSeq == LegacyConfigsOf(legacy, profileSeq)
        active == LegacyMetadata(legacy, "active_profile_id")
    IN  [i \in 1..Len(profileSeq) |-> [phase |-> "profiles", profile |-> profileSeq[i]]]
        \o [i \in 1..Len(configSeq) |-> [phase |-> "providers", config |-> configSeq[i]]]
        \o (IF active /= NoValue /\ active /= StrValue("")
            THEN <<[phase |-> "metadata", key |-> "active_profile_id", value |-> active]>>
            ELSE <<>>)
        \o <<[phase |-> "metadata", key |-> "schema_version",
              value |-> LegacySchemaVersion(legacy)]>>
        \o <<[phase |-> "marker", key |-> "schema_version",
              value |-> NumValue(CurrentVersion)]>>

\* the copy of a provider config that leaves its key behind
MigrationWriteDroppingKey(acc, w, t) ==
    CASE w.phase = "profiles" ->
             [data |-> saveProfile(acc.data, TRUE, w.profile, TRUE).data, n |-> acc.n]
      [] w.phase = "providers" ->
             LET config == [profileId |-> w.config.profileId,
                            providerId |-> w.config.providerId,
                            providerType |-> w.config.providerType,
                            apiKey |-> NullKey,
                            model |-> w.config.model,
                            baseUrl |-> w.config.baseUrl,
                            enabled |-> w.config.enabled,
                            customName |-> w.config.customName,
                            customModels |-> w.config.customModels]
                 fresh == CompositeKey(config.profileId, config.providerId)
                              \notin DOMAIN acc.data.providers
             IN  [data |-> saveProviderConfig(acc.data, TRUE, config, Uuid(acc.n + 1),
                                              t, TRUE).data,
                  n |-> IF fresh THEN acc.n + 1 ELSE acc.n]
      [] OTHER ->
             [data |-> setMetadata(acc.data, TRUE, w.key, w.value, t, TRUE).data, n |-> acc.n]

MigrationWrite(acc, w, t) ==
    CASE w.phase = "profiles" ->
             [data |-> saveProfile(acc.data, TRUE, w.profile, TRUE).data, n |-> acc.n]
      [] w.phase = "providers" ->
             LET config == [profileId |-> w.config.profileId,
                            providerId |-> w.config.providerId,
                            providerType |-> w.config.providerType,
                            apiKey |-> w.config.apiKey,
                            model |-> w.config.model,
                            baseUrl |-> w.config.baseUrl,
                            enabled |-> w.config.enabled,
                            customName |-> w.config.customName,
                            customModels |-> w.config.customModels]
                 fresh == CompositeKey(config.profileId, config.providerId)
                              \notin DOMAIN acc.data.providers
             IN  [data |-> saveProviderConfig(acc.data, TRUE, config, Uuid(acc.n + 1),
                                              t, TRUE).data,
                  n |-> IF fresh THEN acc.n + 1 ELSE acc.n]
      [] OTHER ->
             [data |-> setMetadata(acc.data, TRUE, w.key, w.value, t, TRUE).data, n |-> acc.n]

RECURSIVE MigrationPrefix(_, _, _, _)
MigrationPrefix(acc, writes, count, t) ==
    IF count = 0 \/ writes = <<>> THEN acc
    ELSE MigrationPrefix(MigrationWrite(acc, Head(writes), t), Tail(writes), count - 1, t)

\* isMigrationNeeded(): readFails is ProviderDB rejecting, written the
\* outcome of the write of the marker
isMigrationNeededIgnoringMarker(s, avail, legacy, readFails, t, written) ==
    IF ~avail \/ readFails THEN [data |-> s, ret |-> FALSE]
    ELSE IF DOMAIN legacy.profiles = {}
    THEN [data |-> setSchemaVersion(s, avail, CurrentVersion, t, written).data, ret |-> FALSE]
    ELSE [data |-> s, ret |-> TRUE]

isMigrationNeeded(s, avail, legacy, readFails, t, written) ==
    IF ~avail THEN [data |-> s, ret |-> FALSE]
    ELSE IF getSchemaVersion(s) >= CurrentVersion THEN [data |-> s, ret |-> FALSE]
    ELSE IF readFails THEN [data |-> s, ret |-> FALSE]
    ELSE IF DOMAIN legacy.profiles = {}
    THEN [data |-> setSchemaVersion(s, avail, CurrentVersion, t, written).data, ret |-> FALSE]
    ELSE [data |-> s, ret |-> TRUE]

\* getMigrationStatus().indexedDBItems
indexedDBItems(legacy, readFails) ==
    IF readFails THEN 0
    ELSE Cardinality(DOMAIN legacy.profiles)
            + Len(LegacyConfigsOf(legacy, LegacyAllProfiles(legacy)))

\* migrate(): failAt is the write that throws (0: none; a rejected read of
\* ProviderDB ends the run like the throw of the write that follows it);
\* markerFails: after an error in the metadata block the marker write throws too
migrateMarkingAlways(s, avail, legacy, n, t, failAt, markerFails) ==
    LET writes == MigrationWrites(legacy)
        total == Len(writes)
        start == [data |-> s, n |-> n]
        upTo(k) == MigrationPrefix(start, writes, k, t)
        marked(acc) == MigrationWrite(acc, writes[total], t)
    IN  IF ~avail
        THEN start @@ [success |-> FALSE, failed |-> "unavailable", migratedItems |-> 0]
        ELSE IF failAt = 0
        THEN upTo(total) @@ [success |-> TRUE, failed |-> "", migratedItems |-> total - 1]
        ELSE marked(upTo(failAt - 1))
               @@ [success |-> TRUE, failed |-> writes[failAt].phase,
                   migratedItems |-> failAt - 1]

migrate(s, avail, legacy, n, t, failAt, markerFails) ==
    LET writes == MigrationWrites(legacy)
        total == Len(writes)
        start == [data |-> s, n |-> n]
        upTo(k) == MigrationPrefix(start, writes, k, t)
        marked(acc) == MigrationWrite(acc, writes[total], t)
    IN  IF ~avail
        THEN start @@ [success |-> FALSE, failed |-> "unavailable", migratedItems |-> 0]
        ELSE IF failAt = 0
        THEN upTo(total) @@ [success |-> TRUE, failed |-> "", migratedItems |-> total - 1]
        ELSE IF writes[failAt].phase = "metadata" /\ ~markerFails
        THEN marked(upTo(failAt - 1))
               @@ [success |-> TRUE, failed |-> "metadata", migratedItems |-> failAt - 1]
        ELSE upTo(failAt - 1)
               @@ [success |-> FALSE, failed |-> writes[failAt].phase, migratedItems |-> 0]

\* clearIndexedDB(): cleanFail is the delete that rejects (0: none)
clearIndexedDB(legacy, cleanFail) ==
    LET profileSeq == LegacyAllProfiles(legacy)
        configSeq == LegacyConfigsOf(legacy, profileSeq)
        others == SelectSeq(profileSeq, LAMBDA p : ~p.isDefault)
        failedProfile == cleanFail - Len(configSeq)
    IN  IF cleanFail \in 1..Len(configSeq)
        THEN [legacy EXCEPT
                 !.providers = Remove(@, {configSeq[i].id : i \in 1..(cleanFail - 1)})]
        ELSE [legacy EXCEPT
                 !.providers = Remove(@, {configSeq[i].id : i \in 1..Len(configSeq)}),
                 !.profiles = Remove(@, {others[i].id : i \in 1..Len(others) \ {failedProfile}})]

LegacyDeletes(legacy) ==
    Len(LegacyConfigsOf(legacy, LegacyAllProfiles(legacy)))
        + Cardinality({id \in DOMAIN legacy.profiles : ~legacy.profiles[id].isDefault})

\* migrateAndCleanup(): the legacy records are deleted only after migrate() succeeded
migrateAndCleanup(s, avail, legacy, n, t, failAt, markerFails, cleanFail) ==
    LET migrationResult == migrate(s, avail, legacy, n, t, failAt, markerFails)
    IN  IF ~migrationResult.success
        THEN migrationResult @@ [legacy |-> legacy]
        ELSE migrationResult @@ [legacy |-> clearIndexedDB(legacy, cleanFail)]

----------------------------------------------------------------------------
(* initializeData(), in two steps: the availability probe with the         *)
(* migration, then the load of the profiles and of the active profile      *)

Legacy(l) ==
    /\ legacyProfiles' = l.profiles
    /\ legacyProviders' = l.providers
    /\ legacyMetadata' = l.metadata

InitMigrateOf(readFails, written, failAt, markerFails, cleanFail) ==
    /\ pc = "loading"
    /\ IF ~available
       THEN /\ isFallbackMode' = TRUE
            /\ isLoading' = FALSE
            /\ pc' = "fallback"
            /\ last' = Call("initializeData", "", NotAvailable, 0)
            /\ UNCHANGED <<storageVars, legacyVars, nextUuid>>
       ELSE LET needed == isMigrationNeeded(getAllData, available, getLegacyData,
                                            readFails, now, written)
                items == indexedDBItems(getLegacyData, readFails)
            IN  /\ pc' = "migrated"
                /\ UNCHANGED <<isFallbackMode, isLoading>>
                /\ IF needed.ret /\ items > 0
                   THEN LET r == migrateAndCleanup(needed.data, available, getLegacyData,
                                                   nextUuid, now, failAt, markerFails,
                                                   cleanFail)
                        IN  /\ Stored(r)
                            /\ Legacy(r.legacy)
                            /\ nextUuid' = r.n
                            /\ last' = CallWith("migrateAndCleanup", r.failed,
                                                IF r.success THEN NoError ELSE MigrationFailed,
                                                r.migratedItems, "migrated")
                   ELSE /\ Stored(needed)
                        /\ UNCHANGED <<legacyVars, nextUuid>>
                        /\ last' = CallWith("getMigrationStatus",
                                            IF readFails /\ getSchemaVersion(getAllData)
                                                               < CurrentVersion
                                            THEN "read" ELSE "",
                                            NoError, items, "skipped")
    /\ UNCHANGED <<available, now, backup, session, authVars, currentProfile, profileList,
                   profilesWithProviders, settings, encryptedKeys, view, calls>>

InitMigrate ==
    \E readFails \in BOOLEAN, written \in BOOLEAN, markerFails \in BOOLEAN,
       failAt \in 0..Len(MigrationWrites(getLegacyData)),
       cleanFail \in 0..LegacyDeletes(getLegacyData) :
        /\ nextUuid + Cardinality(DOMAIN legacyProviders) <= MaxUuid
        /\ InitMigrateOf(readFails, written, failAt, markerFails, cleanFail)

\* failAt = 1: the write of getDefaultProfile() throws; 2: the write of
\* active_profile_id throws; without localStorage getAllProfiles() throws
InitLoad ==
    \E failAt \in 0..2 :
        /\ pc = "migrated"
        /\ IF ~available
           THEN /\ last' = Call("initializeData", "", NotAvailable, 0)
                /\ isFallbackMode' = TRUE
                /\ pc' = "fallback"
                /\ UNCHANGED <<storageVars, nextUuid, currentProfile, profileList,
                               profilesWithProviders, settings, encryptedKeys>>
           ELSE
           LET s == getAllData
               active == getMetadata(s, "active_profile_id")
               found == IF active.type = "string" /\ active.str /= ""
                        THEN getProfile(s, active.str) ELSE {}
               d == IF found /= {}
                    THEN Return(s, CHOOSE profile \in found : TRUE)
                    ELSE getDefaultProfile(s, available, Uuid(nextUuid + 1), now, failAt /= 1)
               drawn == found = {} /\ DefaultProfiles(s) = {}
           IN  /\ drawn => nextUuid < MaxUuid
               /\ profileList' = getAllProfiles(s)
               /\ profilesWithProviders' = Summaries(s)
               /\ nextUuid' = IF drawn THEN nextUuid + 1 ELSE nextUuid
               /\ IF d.err /= NoError
                  THEN /\ Stored(d)
                       /\ last' = Call("initializeData", "", d.err, 0)
                       /\ isFallbackMode' = TRUE
                       /\ pc' = "fallback"
                       /\ UNCHANGED <<currentProfile, settings, encryptedKeys>>
                  ELSE LET r == loadProviderConfigs(d.data, available, d.ret.id, now,
                                                    failAt /= 2)
                       IN  /\ Stored(r)
                           /\ currentProfile' = {d.ret}
                           /\ settings' = r.settings
                           /\ encryptedKeys' = r.keys
                           /\ last' = Call("initializeData", d.ret.id, r.err, 0)
                           /\ isFallbackMode' = (r.err /= NoError)
                           /\ pc' = IF r.err /= NoError THEN "fallback" ELSE "ready"
        /\ isLoading' = FALSE
        /\ UNCHANGED <<available, now, backup, legacyVars, session, authVars, view, calls>>

\* the component re-renders: the callbacks now close over the current state
Render ==
    /\ view /= Closure \/ calls > 0
    /\ view' = Closure
    /\ calls' = 0
    /\ UNCHANGED <<storageVars, available, now, nextUuid, backup, last, legacyVars, pc,
                   session, authVars, currentProfile, profileList, profilesWithProviders, settings,
                   encryptedKeys, isLoading, isFallbackMode>>

\* the page is loaded again: a new AISettingsProvider is mounted
Reload ==
    /\ pc \in {"ready", "fallback"}
    /\ session < MaxSessions
    /\ session' = session + 1
    /\ pending' = <<>>
    /\ UNCHANGED <<rateLimit, authState, clock, logins, failedAt>>
    /\ pc' = "loading"
    /\ currentProfile' = {}
    /\ profileList' = {}
    /\ profilesWithProviders' = {}
    /\ settings' = InitialSettings
    /\ encryptedKeys' = EmptyMap
    /\ isLoading' = TRUE
    /\ isFallbackMode' = FALSE
    /\ view' = InitialClosure
    /\ calls' = 0
    /\ last' = Call("reload", "", NoError, 0)
    /\ UNCHANGED <<storageVars, available, now, nextUuid, backup, legacyVars>>

----------------------------------------------------------------------------
(* Provider management of the settings context.  v is the state the        *)
(* callback closed over, prev the React state the functional updates see.  *)

\* a key that is stored as it was typed
PlainKey(plaintext) == [kind |-> "plain", iv |-> 0, data |-> plaintext]

\* config: Partial<ProviderConfig>, `has` names the properties it carries
HasApiKey(config) == "apiKey" \in config.has /\ config.apiKey /= ""

plaintextKeyFor(v, id, config, iv) ==
    IF HasApiKey(config) THEN PlainKey(config.apiKey)
    ELSE IF id \in DOMAIN v.encryptedKeys THEN v.encryptedKeys[id]
    ELSE NullKey

\* let encryptedKey = encryptedKeys[id]; if (config.apiKey ...) encryptedKey =
\* await encrypt(config.apiKey); ... apiKey: encryptedKey || null
encryptedKeyFor(v, id, config, iv) ==
    IF HasApiKey(config) THEN encrypt(config.apiKey, iv)
    ELSE IF id \in DOMAIN v.encryptedKeys THEN v.encryptedKeys[id]
    ELSE NullKey

keysNotCached(prevKeys, id, config, iv) == prevKeys

\* setEncryptedKeys(prev => ({...prev, [id]: encryptedKey}))
cachedKeys(prevKeys, id, config, iv) ==
    IF HasApiKey(config) THEN Put(prevKeys, id, encrypt(config.apiKey, iv)) ELSE prevKeys

\* {...existing, ...config}
MergedProvider(existing, config) ==
    [existing EXCEPT
        !.apiKey = IF "apiKey" \in config.has THEN config.apiKey ELSE @,
        !.model = IF "model" \in config.has THEN config.model ELSE @,
        !.baseUrl = IF "baseUrl" \in config.has THEN config.baseUrl ELSE @,
        !.enabled = IF "enabled" \in config.has THEN config.enabled ELSE @]

\* the two setSettings(prev => ...) of updateProvider
updatedSettings(prev, existing, id, config) ==
    [prev EXCEPT
        !.providers = Put(@, id, MergedProvider(existing, config)),
        !.enabledProviders =
            IF "enabled" \notin config.has THEN @
            ELSE IF config.enabled THEN Append(@, id)
            ELSE SelectSeq(@, LAMBDA p : p /= id)]

\* updateProvider(id, config): yields the buckets, the error, and the React
\* state posted; the key cache is posted before the config is saved
updateProvider(v, prev, prevKeys, s, avail, id, config, iv, uuid, t, written) ==
    IF v.currentProfile = {}
    THEN Throw(s, NoCurrentProfile) @@ [settings |-> prev, keys |-> prevKeys]
    ELSE IF id \notin DOMAIN v.settings.providers
    THEN Throw(s, ProviderNotFound) @@ [settings |-> prev, keys |-> prevKeys]
    ELSE LET profile == CHOOSE p \in v.currentProfile : TRUE
             existing == v.settings.providers[id]
             r == saveProviderConfig(s, avail,
                      [profileId |-> profile.id,
                       providerId |-> id,
                       providerType |-> existing.providerType,
                       apiKey |-> encryptedKeyFor(v, id, config, iv),
                       model |-> OrStr(IF "model" \in config.has
                                       THEN config.model ELSE UndefinedStr, existing.model),
                       baseUrl |-> OrStr(IF "baseUrl" \in config.has
                                         THEN config.baseUrl ELSE UndefinedStr,
                                         existing.baseUrl),
                       enabled |-> IF "enabled" \in config.has
                                   THEN config.enabled ELSE existing.enabled,
                       customName |-> AbsentStr,
                       customModels |-> Absent],
                      uuid, t, written)
         IN  r @@ [settings |-> IF r.err = NoError
                                THEN updatedSettings(prev, existing, id, config) ELSE prev,
                   keys |-> cachedKeys(prevKeys, id, config, iv)]

\* the error of decrypt() is passed on to the caller
getDecryptedApiKeyRethrowing(v, id) ==
    IF id \notin DOMAIN v.encryptedKeys \/ v.encryptedKeys[id] = NullKey
    THEN IF id \in DOMAIN v.settings.providers
         THEN OrStr(v.settings.providers[id].apiKey, "") ELSE ""
    ELSE decrypt(v.encryptedKeys[id])

\* getDecryptedApiKey(id), as the callback of a render computes it
getDecryptedApiKey(v, id) ==
    IF id \notin DOMAIN v.encryptedKeys \/ v.encryptedKeys[id] = NullKey
    THEN IF id \in DOMAIN v.settings.providers
         THEN OrStr(v.settings.providers[id].apiKey, "") ELSE ""
    ELSE IF decrypt(v.encryptedKeys[id]) = DecryptionError THEN ""
    ELSE decrypt(v.encryptedKeys[id])

\* a callback runs: what each of them leaves alone
CtxFrame ==
    /\ calls < MaxCalls
    /\ calls' = calls + 1
    /\ UNCHANGED <<available, now, backup, legacyVars, pc, session, authVars, isLoading,
                   isFallbackMode, view>>

\* the page offers the callbacks although it is in fallback mode
ShownDespiteFallback == pc \in {"ready", "fallback"} /\ ~view.isLoading

\* the settings page offers the callbacks once it rendered the loaded state
Shown == pc = "ready" /\ ~view.isLoading /\ ~view.isFallbackMode

CtxCreateProfileOf(name, description, written) ==
    /\ Shown
    /\ nextUuid < MaxUuid
    /\ LET r == createProfile(getAllData, available,
                              [name |-> Slice(Trim(name), NameMax),
                               description |-> OptTrim(description)],
                              Uuid(nextUuid + 1), now, written)
       IN  /\ Stored(r)
           /\ last' = Call("createProfile", Uuid(nextUuid + 1), r.err, 0)
           /\ profileList' = IF r.err = NoError THEN getAllProfiles(r.data) ELSE profileList
           /\ profilesWithProviders' =
                  IF r.err = NoError THEN Summaries(r.data) ELSE profilesWithProviders
    /\ nextUuid' = nextUuid + 1
    /\ UNCHANGED <<currentProfile, settings, encryptedKeys>>
    /\ CtxFrame

\* the profile is switched and the loaded configs are not posted
CtxSwitchProfileWithoutReload(id, written) ==
    /\ Shown
    /\ IF ~available \/ id \notin DOMAIN profiles
       THEN /\ last' = Call("switchProfile", id,
                            IF ~available THEN NotAvailable ELSE ProfileNotFound, 0)
            /\ UNCHANGED <<storageVars, currentProfile, settings, encryptedKeys>>
       ELSE LET r == loadProviderConfigs(getAllData, available, id, now, written)
            IN  /\ Stored(r)
                /\ currentProfile' = {profiles[id]}
                /\ settings' = [settings EXCEPT !.profileId = id]
                /\ encryptedKeys' = encryptedKeys
                /\ last' = Call("switchProfile", id, r.err, 0)
    /\ UNCHANGED <<nextUuid, profileList, profilesWithProviders>>
    /\ CtxFrame

CtxSwitchProfileOf(id, written) ==
    /\ Shown
    /\ IF ~available \/ id \notin DOMAIN profiles
       THEN /\ last' = Call("switchProfile", id,
                            IF ~available THEN NotAvailable ELSE ProfileNotFound, 0)
            /\ UNCHANGED <<storageVars, currentProfile, settings, encryptedKeys>>
       ELSE LET r == loadProviderConfigs(getAllData, available, id, now, written)
            IN  /\ Stored(r)
                /\ currentProfile' = {profiles[id]}
                /\ settings' = r.settings
                /\ encryptedKeys' = r.keys
                /\ last' = Call("switchProfile", id, r.err, 0)
    /\ UNCHANGED <<nextUuid, profileList, profilesWithProviders>>
    /\ CtxFrame

\* deleteProfile(id) of the context: the storage delete, the reload of the
\* lists and, when the render's current profile was deleted, the switch to
\* the default profile.  failAt as in deleteProfile of the storage provider;
\* ~written: the writes of getDefaultProfile and of active_profile_id throw
CtxDeleteProfileOf(id, failAt, written) ==
    /\ Shown
    /\ LET r == deleteProfile(getAllData, available, id, failAt)
           wasCurrent == \E profile \in view.currentProfile : profile.id = id
       IN  IF r.err /= NoError
           THEN /\ Stored(r)
                /\ last' = Call("deleteProfile", id, r.err, 0)
                /\ UNCHANGED <<nextUuid, currentProfile, profileList, profilesWithProviders,
                               settings, encryptedKeys>>
           ELSE /\ profileList' = getAllProfiles(r.data)
                /\ profilesWithProviders' = Summaries(r.data)
                /\ IF ~wasCurrent
                   THEN /\ Stored(r)
                        /\ last' = Call("deleteProfile", id, NoError, 0)
                        /\ UNCHANGED <<nextUuid, currentProfile, settings, encryptedKeys>>
                   ELSE LET drawn == DefaultProfiles(r.data) = {}
                            d == getDefaultProfile(r.data, available, Uuid(nextUuid + 1), now,
                                                   written)
                        IN  /\ drawn => nextUuid < MaxUuid
                            /\ nextUuid' = IF drawn THEN nextUuid + 1 ELSE nextUuid
                            /\ IF d.err /= NoError
                               THEN /\ Stored(d)
                                    /\ last' = Call("deleteProfile", id, d.err, 0)
                                    /\ UNCHANGED <<currentProfile, settings, encryptedKeys>>
                               ELSE LET l == loadProviderConfigs(d.data, available, d.ret.id,
                                                                 now, written)
                                    IN  /\ Stored(l)
                                        /\ currentProfile' = {d.ret}
                                        /\ settings' = l.settings
                                        /\ encryptedKeys' = l.keys
                                        /\ last' = Call("deleteProfile", id, l.err, 1)
    /\ CtxFrame

\* failAt = 1: the write of the config throws; 2: the write of
\* active_profile_id in loadProviderConfigs throws
CtxAddProviderOf(providerId, failAt) ==
    /\ Shown
    /\ IF view.currentProfile = {} \/ providerId \in DOMAIN view.settings.providers
          \/ providerId \notin DOMAIN PROVIDERS
       THEN /\ last' = Call("addProvider", providerId,
                            IF view.currentProfile = {} THEN NoCurrentProfile
                            ELSE IF providerId \in DOMAIN view.settings.providers
                            THEN ProviderAlreadyExists ELSE ProviderNotFound,
                            IF /\ view.currentProfile /= {}
                               /\ CompositeKey((CHOOSE p \in view.currentProfile : TRUE).id,
                                               providerId) \in DOMAIN providers
                            THEN 1 ELSE 0)
            /\ UNCHANGED <<storageVars, nextUuid, settings, encryptedKeys,
                           profilesWithProviders>>
       ELSE LET profile == CHOOSE p \in view.currentProfile : TRUE
                key == CompositeKey(profile.id, providerId)
                saved == saveProviderConfig(getAllData, available,
                             [profileId |-> profile.id,
                              providerId |-> providerId,
                              providerType |-> "builtin",
                              apiKey |-> NullKey,
                              model |-> PROVIDERS[providerId].defaultModel,
                              baseUrl |-> OrStr(PROVIDERS[providerId].fixedBaseUrl, ""),
                              enabled |-> FALSE,
                              customName |-> AbsentStr,
                              customModels |-> Absent],
                             Uuid(nextUuid + 1), now, failAt /= 1)
                r == IF saved.err /= NoError THEN saved @@ [posted |-> FALSE]
                     ELSE loadProviderConfigs(saved.data, available, profile.id, now,
                                              failAt /= 2)
            IN  /\ key \in DOMAIN providers \/ nextUuid < MaxUuid
                /\ nextUuid' = IF key \in DOMAIN providers \/ ~available
                               THEN nextUuid ELSE nextUuid + 1
                /\ Stored(r)
                /\ settings' = IF r.posted THEN r.settings ELSE settings
                /\ encryptedKeys' = IF r.posted THEN r.keys ELSE encryptedKeys
                /\ profilesWithProviders' =
                       IF r.err = NoError THEN Summaries(r.data) ELSE profilesWithProviders
                /\ last' = Call("addProvider", providerId, r.err,
                                IF key \in DOMAIN providers THEN 1 ELSE 0)
    /\ UNCHANGED <<currentProfile, profileList>>
    /\ CtxFrame

UpdateProviderStep(op, id, config, iv, written) ==
    /\ Shown
    /\ LET key == IF view.currentProfile = {} THEN ""
                  ELSE CompositeKey((CHOOSE p \in view.currentProfile : TRUE).id, id)
           saves == view.currentProfile /= {} /\ id \in DOMAIN view.settings.providers
           r == updateProvider(view, settings, encryptedKeys, getAllData, available, id,
                               config, iv, Uuid(nextUuid + 1), now, written)
       IN  /\ (saves /\ key \notin DOMAIN providers) => nextUuid < MaxUuid
           /\ ("enabled" \in config.has /\ config.enabled /\ saves)
                  => Len(settings.enabledProviders) < MaxEnabled
           /\ nextUuid' = IF saves /\ available /\ key \notin DOMAIN providers
                          THEN nextUuid + 1 ELSE nextUuid
           /\ Stored(r)
           /\ settings' = r.settings
           /\ encryptedKeys' = r.keys
           /\ last' = CallWith(op, id, r.err, 0,
                               IF HasApiKey(config) THEN config.apiKey ELSE "")
    /\ UNCHANGED <<currentProfile, profileList, profilesWithProviders>>
    /\ CtxFrame

CtxUpdateProviderOf(id, config, iv, written) ==
    UpdateProviderStep("updateProvider", id, config, iv, written)

CtxToggleProviderOf(id, written) ==
    IF id \notin DOMAIN view.settings.providers
    THEN /\ Shown
         /\ last' = Call("toggleProvider", id, ProviderNotFound, 0)
         /\ UNCHANGED <<storageVars, nextUuid, currentProfile, profileList,
                        profilesWithProviders, settings, encryptedKeys>>
         /\ CtxFrame
    ELSE UpdateProviderStep("toggleProvider", id,
                            [has |-> {"enabled"}, apiKey |-> "", model |-> "", baseUrl |-> "",
                             enabled |-> ~view.settings.providers[id].enabled],
                            1, written)

CtxDeleteProviderOf(id, written) ==
    /\ Shown
    /\ IF view.currentProfile = {}
       THEN /\ last' = Call("deleteProvider", id, NoCurrentProfile, 0)
            /\ UNCHANGED <<storageVars, settings, encryptedKeys, profilesWithProviders>>
       ELSE LET profile == CHOOSE p \in view.currentProfile : TRUE
                r == deleteProviderConfig(getAllData, available,
                                          CompositeKey(profile.id, id), written)
            IN  /\ Stored(r)
                /\ last' = Call("deleteProvider", id, r.err, 0)
                /\ IF r.err /= NoError
                   THEN UNCHANGED <<settings, encryptedKeys, profilesWithProviders>>
                   ELSE /\ settings' =
                               [settings EXCEPT
                                   !.providers = Remove(@, {id}),
                                   !.enabledProviders = SelectSeq(@, LAMBDA p : p /= id)]
                        /\ encryptedKeys' = Remove(encryptedKeys, {id})
                        /\ profilesWithProviders' = Summaries(r.data)
    /\ UNCHANGED <<nextUuid, currentProfile, profileList>>
    /\ CtxFrame

\* input: CustomProviderInput {name, baseUrl, models}
\* a form field is a sequence of tokens; its text is their concatenation
RECURSIVE Text(_)
Text(s) == IF s = <<>> THEN "" ELSE Head(s) \o Text(Tail(s))

\* new URL(s) does not throw
ParsesAsUrl(s) ==
    /\ Len(s) >= 2
    /\ s[1] \in {"https://", "http://"}
    /\ \A i \in 2..Len(s) : ~IsSpace(s[i])

\* s.startsWith("http")
startsWithHttp(s) == s /= <<>> /\ s[1] \in {"https://", "http://"}

\* s.startsWith("https://")
startsWithHttps(s) == s /= <<>> /\ s[1] = "https://"

\* String.prototype.split(",")
RECURSIVE Split(_)
Split(s) ==
    IF \A i \in 1..Len(s) : s[i] /= ","
    THEN <<s>>
    ELSE LET i == CHOOSE k \in 1..Len(s) :
                      s[k] = "," /\ \A j \in 1..(k - 1) : s[j] /= ","
         IN  <<SubSeq(s, 1, i - 1)>> \o Split(SubSeq(s, i + 1, Len(s)))

\* customProviderModels.split(",").map(m => m.trim()).filter(m => m.length > 0)
ParseModels(s) ==
    LET parts == Split(s)
        trimmed == [i \in 1..Len(parts) |-> Trim(parts[i])]
        IsModel(m) == Len(m) > 0
        kept == SelectSeq(trimmed, IsModel)
    IN  [i \in 1..Len(kept) |-> Text(kept[i])]

NameAndUrlRequired == "Name and base URL are required"

InvalidUrl == "Please enter a valid URL"

MustUseHttps == "Base URL must use HTTPS"

ModelRequired == "At least one model is required"

CreateCustomProviderStep(input, failAt, op) ==
    /\ Shown
    /\ IF view.currentProfile = {}
       THEN /\ last' = Call(op, "", NoCurrentProfile, 0)
            /\ UNCHANGED <<storageVars, nextUuid, settings, encryptedKeys,
                           profilesWithProviders>>
       ELSE LET profile == CHOOSE p \in view.currentProfile : TRUE
                providerId == "custom-" \o Uuid(nextUuid + 1)
                saved == saveProviderConfig(getAllData, available,
                             [profileId |-> profile.id,
                              providerId |-> providerId,
                              providerType |-> "custom",
                              apiKey |-> NullKey,
                              model |-> IF input.models = <<>> THEN ""
                                        ELSE OrStr(input.models[1], ""),
                              baseUrl |-> input.baseUrl,
                              enabled |-> FALSE,
                              customName |-> input.name,
                              customModels |-> input.models],
                             Uuid(nextUuid + 2), now, failAt /= 1)
                r == IF saved.err /= NoError THEN saved @@ [posted |-> FALSE]
                     ELSE loadProviderConfigs(saved.data, available, profile.id, now,
                                              failAt /= 2)
            IN  /\ nextUuid + 2 <= MaxUuid
                /\ nextUuid' = IF available THEN nextUuid + 2 ELSE nextUuid + 1
                /\ Stored(r)
                /\ settings' = IF r.posted THEN r.settings ELSE settings
                /\ encryptedKeys' = IF r.posted THEN r.keys ELSE encryptedKeys
                /\ profilesWithProviders' =
                       IF r.err = NoError THEN Summaries(r.data) ELSE profilesWithProviders
                /\ last' = Call(op, providerId, r.err, 0)
    /\ UNCHANGED <<currentProfile, profileList>>
    /\ CtxFrame

CtxCreateCustomProviderOf(input, failAt) ==
    CreateCustomProviderStep(input, failAt, "createCustomProvider")

\* the dialog's "Create" button
HandleCreateCustomProviderOf(form, failAt) ==
    LET name == Trim(form.name)
        baseUrl == Trim(form.baseUrl)
        models == ParseModels(form.models)
        Toast(msg) ==
            /\ Shown
            /\ last' = Call("handleCreateCustomProvider", "", msg, 0)
            /\ UNCHANGED <<storageVars, nextUuid, currentProfile, profileList,
                           profilesWithProviders, settings, encryptedKeys>>
            /\ CtxFrame
    IN  IF name = <<>> \/ baseUrl = <<>> THEN Toast(NameAndUrlRequired)
        ELSE IF ~ParsesAsUrl(baseUrl) THEN Toast(InvalidUrl)
        ELSE IF ~startsWithHttps(baseUrl) THEN Toast(MustUseHttps)
        ELSE IF models = <<>> THEN Toast(ModelRequired)
        ELSE CreateCustomProviderStep(
                 [name |-> Text(name), baseUrl |-> Text(baseUrl), models |-> models],
                 failAt, "handleCreateCustomProvider")

----------------------------------------------------------------------------
(* The settings page at work *)

ProviderIds == {"openai"}

PlainKeys == {"sk-1"}

ApiKeyUpdates ==
    { [has |-> {"apiKey"}, apiKey |-> k, model |-> "", baseUrl |-> "", enabled |-> FALSE] :
          k \in PlainKeys }

CustomInputs ==
    { [name |-> "Local", baseUrl |-> "http://localhost:8080", models |-> <<"llama">>] }

\* what a caller of the context may pass
DirectInputs ==
    CustomInputs \cup
    { [name |-> "Local", baseUrl |-> "https://api.example.com", models |-> <<>>] }

\* what the user may type into the dialog
CustomForms ==
    [name : { <<" ", "Local", " ">>, <<" ">> },
     baseUrl : { <<" ", "https://", "api.example.com", " ">>,
                 <<"http://", "localhost:8080">>,
                 <<"api.example.com">>,
                 <<"https://">>,
                 <<" ">> },
     models : { <<"llama", ",", " ", "mistral", " ">>, <<" ", ",", " ">>, <<>> }]

ProfileNames == { <<" ", "W", "o", "r", "k", " ">> }

CtxCreateProfile ==
    \E name \in ProfileNames, written \in BOOLEAN :
        CtxCreateProfileOf(name, Undefined, written)

CtxSwitchProfile ==
    \E id \in DOMAIN profiles \cup {Uuid(MaxUuid)}, written \in BOOLEAN :
        CtxSwitchProfileOf(id, written)

CtxAddProvider ==
    \E providerId \in ProviderIds, failAt \in 0..2 : CtxAddProviderOf(providerId, failAt)

CtxUpdateProvider ==
    \E id \in ProviderIds, config \in ApiKeyUpdates, iv \in IVs, written \in BOOLEAN :
        CtxUpdateProviderOf(id, config, iv, written)

CtxToggleProvider ==
    \E id \in ProviderIds, written \in BOOLEAN : CtxToggleProviderOf(id, written)

CtxDeleteProvider ==
    \E id \in ProviderIds, written \in BOOLEAN : CtxDeleteProviderOf(id, written)

CtxCreateCustomProvider ==
    \E input \in CustomInputs, failAt \in 0..2 : CtxCreateCustomProviderOf(input, failAt)

CtxCreateCustomProviderDirectly ==
    \E input \in DirectInputs, failAt \in 0..2 : CtxCreateCustomProviderOf(input, failAt)

HandleCreateCustomProvider ==
    \E form \in CustomForms, failAt \in 0..2 : HandleCreateCustomProviderOf(form, failAt)

\* what the previous generation of the application left in IndexedDB
LegacyProfile(id, isDefault) ==
    [id |-> id, name |-> IF isDefault THEN <<"D", "e", "f", "a", "u", "l", "t">> ELSE <<"W">>,
     description |-> Undefined, createdAt |-> 0, updatedAt |-> 0, isDefault |-> isDefault]

LegacyConfig(id, profileId, providerId, apiKey, enabled) ==
    [id |-> id, profileId |-> profileId, providerId |-> providerId,
     providerType |-> "builtin", apiKey |-> apiKey,
     model |-> PROVIDERS[providerId].defaultModel, baseUrl |-> UndefinedStr,
     enabled |-> enabled, customName |-> UndefinedStr, customModels |-> Undefined,
     createdAt |-> 0, updatedAt |-> 0]

LegacyMeta(key, value) == [key |-> key, value |-> value, updatedAt |-> 0]

NoLegacy ==
    [profiles |-> EmptyMap, providers |-> EmptyMap, metadata |-> EmptyMap]

\* one profile with one configured provider
LegacyOne ==
    [profiles |-> [id \in {"L1"} |-> LegacyProfile("L1", TRUE)],
     providers |-> [id \in {"c1"} |->
                       LegacyConfig("c1", "L1", "openai", encrypt("sk-0", 1), TRUE)],
     metadata |-> [key \in {"active_profile_id", "schema_version"} |->
                      IF key = "schema_version" THEN LegacyMeta(key, NumValue(1))
                      ELSE LegacyMeta(key, StrValue("L1"))]]

\* two profiles, the second one active
LegacyTwo ==
    [profiles |-> [id \in {"L1", "L2"} |-> LegacyProfile(id, id = "L1")],
     providers |-> [id \in {"c1", "c2"} |->
                       IF id = "c1"
                       THEN LegacyConfig("c1", "L1", "openai", encrypt("sk-0", 1), TRUE)
                       ELSE LegacyConfig("c2", "L2", "anthropic", NullKey, FALSE)],
     metadata |-> [key \in {"active_profile_id", "schema_version"} |->
                      IF key = "schema_version" THEN LegacyMeta(key, NumValue(1))
                      ELSE LegacyMeta(key, StrValue("L2"))]]

\* a blob that the device key does not decrypt
Garbage == [kind |-> "enc", iv |-> 1, data |-> "#corrupt#"]

\* one profile whose provider key was encrypted under another device key
LegacyCorrupt ==
    [LegacyOne EXCEPT !.providers =
        [id \in {"c1"} |-> LegacyConfig("c1", "L1", "openai", Garbage, TRUE)]]

InitLegacy(l) ==
    /\ legacyProfiles = l.profiles
    /\ legacyProviders = l.providers
    /\ legacyMetadata = l.metadata

InitMounted ==
    /\ InitStorage
    /\ InitReact
    /\ pc = "loading"
    /\ session = 1
    /\ InitAuth

\* a first visit, or the first visit after the upgrade from IndexedDB
InitApp ==
    /\ InitMounted
    /\ available \in BOOLEAN
    /\ \E l \in {NoLegacy, LegacyOne} : InitLegacy(l)

InitFresh ==
    /\ InitMounted
    /\ available \in BOOLEAN
    /\ InitLegacy(NoLegacy)

InitUpgrade ==
    /\ InitMounted
    /\ available = TRUE
    /\ InitLegacy(LegacyTwo)

CtxSetApiKey ==
    \E id \in ProviderIds, written \in BOOLEAN :
        CtxUpdateProviderOf(id, [has |-> {"apiKey"}, apiKey |-> "sk-1", model |-> "",
                                 baseUrl |-> "", enabled |-> FALSE], 1, written)

\* one profile, its providers and their keys
NextProviders ==
    \/ InitMigrate
    \/ InitLoad
    \/ Render
    \/ CtxAddProvider
    \/ CtxUpdateProvider
    \/ CtxToggleProvider
    \/ CtxCreateCustomProvider

SpecProviders == InitApp /\ [][NextProviders]_vars

\* several profiles
NextProfiles ==
    \/ InitMigrate
    \/ InitLoad
    \/ Render
    \/ CtxCreateProfile
    \/ CtxSwitchProfile
    \/ CtxAddProvider
    \/ CtxSetApiKey

SpecProfiles == InitFresh /\ [][NextProfiles]_vars

\* the visits after the upgrade
NextMigration ==
    \/ InitMigrate
    \/ InitLoad
    \/ Render
    \/ Reload
    \/ CtxSwitchProfile

SpecMigration == InitUpgrade /\ [][NextMigration]_vars

\* localStorage as earlier visits left it: two profiles with a provider each
ReturningStore ==
    LET empty == [profiles |-> EmptyMap, providers |-> EmptyMap, metadata |-> EmptyMap]
        config(profileId, providerId, apiKey) ==
            [profileId |-> profileId, providerId |-> providerId,
             providerType |-> "builtin", apiKey |-> apiKey,
             model |-> PROVIDERS[providerId].defaultModel, baseUrl |-> UndefinedStr,
             enabled |-> FALSE, customName |-> AbsentStr, customModels |-> Absent]
        one == saveProfile(empty, TRUE, LegacyProfile("p1", TRUE), TRUE).data
        two == saveProfile(one, TRUE, LegacyProfile("p2", FALSE), TRUE).data
        three == saveProviderConfig(two, TRUE, config("p1", "openai", encrypt("sk-0", 1)),
                                    "k1", 0, TRUE).data
        four == saveProviderConfig(three, TRUE, config("p2", "anthropic", NullKey),
                                   "k2", 0, TRUE).data
    IN  setSchemaVersion(four, TRUE, CurrentVersion, 0, TRUE).data

InitReturning ==
    /\ profiles = ReturningStore.profiles
    /\ providers = ReturningStore.providers
    /\ metadata = ReturningStore.metadata
    /\ now = 0
    /\ nextUuid = 0
    /\ backup = [json |-> exportData(getAllData), of |-> getAllData]
    /\ last = NoCall
    /\ InitReact
    /\ pc = "loading"
    /\ session = 1
    /\ InitAuth
    /\ available = TRUE
    /\ InitLegacy(NoLegacy)

\* the callbacks of the latest render, one call per render
LatestSwitchProfile ==
    calls = 0 /\ \E id \in DOMAIN profiles : CtxSwitchProfileOf(id, TRUE)

LatestAddProvider ==
    calls = 0 /\ \E id \in ProviderIds, failAt \in 0..1 : CtxAddProviderOf(id, failAt)

LatestUpdateProvider ==
    calls = 0 /\ \E id \in ProviderIds, config \in ApiKeyUpdates :
                     CtxUpdateProviderOf(id, config, 1, TRUE)

LatestToggleProvider ==
    calls = 0 /\ \E id \in ProviderIds : CtxToggleProviderOf(id, TRUE)

LatestDeleteProvider ==
    calls = 0 /\ \E id \in ProviderIds, written \in BOOLEAN : CtxDeleteProviderOf(id, written)

LatestCreateCustomProvider ==
    calls = 0 /\ \E input \in CustomInputs : CtxCreateCustomProviderOf(input, 0)

\* two profiles with providers of their own, and every provider callback
NextIsolation ==
    \/ InitMigrate
    \/ InitLoad
    \/ Render
    \/ LatestSwitchProfile
    \/ LatestAddProvider
    \/ LatestUpdateProvider
    \/ LatestToggleProvider
    \/ LatestDeleteProvider
    \/ LatestCreateCustomProvider

SpecIsolation == InitReturning /\ [][NextIsolation]_vars

\* the provider-configs bucket under every operation that writes it
NextConfigs ==
    \/ StorageCreateProfile
    \/ StorageSaveProviderConfig
    \/ StorageUpdateProviderConfig
    \/ StorageDeleteProviderConfig
    \/ StorageDeleteProfile

SpecConfigs == InitStorageSpec /\ [][NextConfigs]_vars

\* localStorage is enabled or disabled in the browser, fills up or is freed:
\* isAvailable() probes it anew on every call
StorageAvailabilityChanges ==
    /\ available' = ~available
    /\ UNCHANGED <<storageVars, now, nextUuid, backup, last, legacyVars, pc, session, authVars,
                   reactVars>>

\* visits with localStorage coming and going
NextFallback ==
    \/ InitMigrate
    \/ InitLoad
    \/ Render
    \/ Reload
    \/ StorageAvailabilityChanges
    \/ CtxCreateProfile
    \/ CtxSwitchProfile

SpecFallback == InitFresh /\ [][NextFallback]_vars

InitKeys ==
    /\ InitMounted
    /\ available = TRUE
    /\ \E l \in {NoLegacy, LegacyOne, LegacyCorrupt} : InitLegacy(l)

\* the keys of one profile: none, readable, unreadable, replaced
NextKeys ==
    \/ InitMigrate
    \/ InitLoad
    \/ Render
    \/ CtxAddProvider
    \/ CtxSetApiKey
    \/ CtxToggleProvider

SpecKeys == InitKeys /\ [][NextKeys]_vars

\* updateProvider(id, {enabled}) as the settings page calls it
CtxSetEnabled ==
    \E id \in ProviderIds, enabled \in BOOLEAN, written \in BOOLEAN :
        CtxUpdateProviderOf(id, [has |-> {"enabled"}, apiKey |-> "", model |-> "",
                                 baseUrl |-> "", enabled |-> enabled], 1, written)

\* the enabled list of one profile
NextEnabled ==
    \/ InitMigrate
    \/ InitLoad
    \/ Render
    \/ CtxAddProvider
    \/ CtxSetEnabled
    \/ CtxToggleProvider
    \/ CtxDeleteProvider
    \/ CtxSwitchProfile

SpecEnabled == InitKeys /\ [][NextEnabled]_vars

\* deleting and switching profiles next to the provider operations; the
\* two writes of the storage delete both succeed or the first one throws
CtxDeleteProfile ==
    \E id \in DOMAIN profiles, failAt \in 0..1 : CtxDeleteProfileOf(id, failAt, TRUE)

CtxSwitchToProfile ==
    \E id \in DOMAIN profiles \cup {Uuid(MaxUuid)} : CtxSwitchProfileOf(id, TRUE)

CtxAddBuiltinProvider ==
    \E providerId \in ProviderIds : CtxAddProviderOf(providerId, 0)

CtxCreateLocalProvider ==
    \E input \in CustomInputs : CtxCreateCustomProviderOf(input, 0)

NextIntegrity ==
    \/ InitMigrate
    \/ InitLoad
    \/ Render
    \/ CtxSwitchToProfile
    \/ CtxDeleteProfile
    \/ CtxAddBuiltinProvider
    \/ CtxSetApiKey
    \/ CtxCreateLocalProvider

SpecIntegrity == InitReturning /\ [][NextIntegrity]_vars

\* custom providers, created through the dialog or by a caller of the context
NextCustom ==
    \/ InitMigrate
    \/ InitLoad
    \/ Render
    \/ HandleCreateCustomProvider
    \/ CtxCreateCustomProviderDirectly
    \/ CtxToggleProvider

SpecCustom == InitFresh /\ [][NextCustom]_vars

----------------------------------------------------------------------------
(* Passcode login and its rate limiter *)

\* the clock advances in steps of half a window
ClockStep == WINDOW_MS \div 2

\* attempts.filter((timestamp) => now - timestamp < WINDOW_MS)
cleanOldAttempts(attempts, t) ==
    LET Recent(timestamp) == t - timestamp < WINDOW_MS
    IN  SelectSeq(attempts, Recent)

canAttempt(attempts, t) == Len(cleanOldAttempts(attempts, t)) < MAX_ATTEMPTS

\* the attempts stored by recordAttempt()
recordAttempt(attempts, t) == Append(cleanOldAttempts(attempts, t), t)

remainingAttempts(attempts, t) ==
    LET left == MAX_ATTEMPTS - Len(cleanOldAttempts(attempts, t))
    IN  IF left > 0 THEN left ELSE 0

\* the attempts read after clearRateLimit()
clearRateLimit == <<>>

\* SHA-256 of the passcode, in hexadecimal
hashPasscode(passcode) == "sha256(" \o passcode \o ")"

verifyPasscode(passcode, expectedHash) == hashPasscode(passcode) = expectedHash

\* process.env.NEXT_PUBLIC_PASSCODE_HASH
ExpectedHash == hashPasscode("123456")

Passcodes == {"123456", "000000"}

TooManyAttempts == "Too many attempts."

NotConfigured == "Authentication not configured."

InvalidPasscode == "Invalid passcode."

AuthFrame ==
    UNCHANGED <<storageVars, available, now, nextUuid, backup, legacyVars, pc, session,
                reactVars>>

\* login(passcode) up to its await
LoginStart ==
    \E passcode \in Passcodes :
        /\ logins < MaxLogins
        /\ Cardinality(DOMAIN pending) < MaxPending
        /\ logins' = logins + 1
        /\ IF ~canAttempt(rateLimit, clock)
           THEN /\ last' = CallWith("login", ToString(logins + 1), TooManyAttempts, 0,
                                    passcode)
                /\ UNCHANGED pending
           ELSE IF ExpectedHash = ""
           THEN /\ last' = CallWith("login", ToString(logins + 1), NotConfigured, 0,
                                    passcode)
                /\ UNCHANGED pending
           ELSE /\ last' = CallWith("verifyPasscode", ToString(logins + 1), NoError, 0,
                                    passcode)
                /\ pending' = [c \in DOMAIN pending \cup {logins + 1} |->
                                  IF c = logins + 1 THEN passcode ELSE pending[c]]
        /\ UNCHANGED <<rateLimit, authState, clock, failedAt>>
        /\ AuthFrame

\* login(passcode) from the point where verifyPasscode has answered
LoginFinish ==
    \E c \in DOMAIN pending :
        /\ pending' = [d \in DOMAIN pending \ {c} |-> pending[d]]
        /\ IF verifyPasscode(pending[c], ExpectedHash)
           THEN /\ authState' = TRUE
                /\ rateLimit' = clearRateLimit
                /\ failedAt' = <<>>
                /\ last' = CallWith("login", ToString(c), NoError, 0, pending[c])
           ELSE /\ rateLimit' = recordAttempt(rateLimit, clock)
                /\ failedAt' = Append(failedAt, clock)
                /\ last' = CallWith("login", ToString(c),
                                    IF remainingAttempts(rateLimit', clock) = 0
                                    THEN TooManyAttempts ELSE InvalidPasscode,
                                    remainingAttempts(rateLimit', clock), pending[c])
                /\ UNCHANGED authState
        /\ UNCHANGED <<clock, logins>>
        /\ AuthFrame

Logout ==
    /\ authState
    /\ authState' = FALSE
    /\ last' = Call("logout", "", NoError, 0)
    /\ UNCHANGED <<rateLimit, clock, pending, logins, failedAt>>
    /\ AuthFrame

TimePasses ==
    /\ clock < MaxTicks * ClockStep
    /\ clock' = clock + ClockStep
    /\ UNCHANGED <<rateLimit, authState, pending, logins, failedAt, last>>
    /\ AuthFrame

NextAuth ==
    \/ LoginStart
    \/ LoginFinish
    \/ Logout
    \/ TimePasses

SpecAuth == InitFresh /\ [][NextAuth]_vars

\* the store of a returning user whose active profile is id
ReturningActive(id) ==
    setMetadata(ReturningStore, TRUE, "active_profile_id", StrValue(id), 0, TRUE).data

\* what a visit may find: nothing, the previous generation's database, or the
\* localStorage of earlier visits, whose active profile may since be deleted
VisitStores ==
    { [store |-> ReturningStore, legacy |-> NoLegacy],
      [store |-> ReturningActive("p2"), legacy |-> NoLegacy],
      [store |-> ReturningActive("p9"), legacy |-> NoLegacy] }
    \cup { [store |-> [profiles |-> EmptyMap, providers |-> EmptyMap,
                       metadata |-> EmptyMap],
            legacy |-> l] : l \in {NoLegacy, LegacyOne, LegacyTwo} }

InitVisit ==
    /\ \E v \in VisitStores :
           /\ profiles = v.store.profiles
           /\ providers = v.store.providers
           /\ metadata = v.store.metadata
           /\ InitLegacy(v.legacy)
    /\ now = 0
    /\ nextUuid = 0
    /\ backup = [json |-> exportData(getAllData), of |-> getAllData]
    /\ last = NoCall
    /\ InitReact
    /\ pc = "loading"
    /\ session = 1
    /\ InitAuth
    /\ available \in BOOLEAN

NextVisit ==
    \/ InitMigrate
    \/ InitLoad
    \/ Render
    \/ StorageAvailabilityChanges

\* the first phase of initializeData has run: only InitMigrate leaves "loading"
InitMigrateSettles ==
    pc = "loading" /\ pc' \in {"migrated", "fallback"}

\* initializeData is one async function whose awaits all settle: once started
\* by the mount effect, each of its two phases is eventually run
SpecVisit ==
    InitVisit /\ [][NextVisit]_vars /\ WF_pc(InitMigrateSettles) /\ WF_vars(InitLoad)

----------------------------------------------------------------------------
(* Properties of the settings context *)

\* C5: after addProvider, updateProvider, toggleProvider, createCustomProvider
\* and the migration, the apiKey of every persisted ProviderConfig is null or
\* an {iv, data} blob of encrypt(), never the key as it was typed
C5_NoPlaintextKeyStored ==
    \A key \in DOMAIN providers :
        /\ providers[key].apiKey.kind \in {"null", "enc"}
        /\ \A k \in Plaintexts :
               providers[key].apiKey /= PlainKey(k) /\ providers[key].apiKey.data /= k

\* a typed key and a toggled provider are stored, the key as a blob
C5_Witness ==
    /\ last.op = "toggleProvider"
    /\ last.err = NoError
    /\ \E key \in DOMAIN providers :
           /\ providers[key].apiKey = encrypt("sk-1", 1)
           /\ providers[key].providerId = last.id

C7_AddExistingRejected ==
    [][\A providerId \in ProviderIds, failAt \in 0..2 :
           (/\ CtxAddProviderOf(providerId, failAt)
            /\ \E profile \in view.currentProfile :
                   CompositeKey(profile.id, providerId) \in DOMAIN providers)
               => /\ last'.err = ProviderAlreadyExists
                  /\ providers' = providers]_vars

\* the persisted configs of a profile, by provider id
PersistedOf(profileId) ==
    {key \in DOMAIN providers : providers[key].profileId = profileId}

\* C8: after switchProfile(id) resolved for an existing profile, the
\* in-memory providers and the key cache hold exactly the configs persisted
\* with profileId = id, nothing of the profile shown before, and the
\* metadata entry active_profile_id is id
C8_SwitchLoadsExactly ==
    (last.op = "switchProfile" /\ last.err = NoError)
        => LET id == last.id
               keys == PersistedOf(id)
           IN  /\ currentProfile = {profiles[id]}
               /\ settings.profileId = id
               /\ DOMAIN settings.providers = {providers[key].providerId : key \in keys}
               /\ \A key \in keys :
                      LET config == providers[key]
                          shown == settings.providers[config.providerId]
                      IN  /\ shown.model = config.model
                          /\ shown.enabled = config.enabled
                          /\ shown.apiKey = ""
               /\ DOMAIN encryptedKeys =
                      {providers[key].providerId : key \in {k \in keys :
                                                               providers[k].apiKey /= NullKey}}
               /\ \A key \in keys :
                      providers[key].apiKey /= NullKey
                          => encryptedKeys[providers[key].providerId] = providers[key].apiKey
               /\ getMetadata(getAllData, "active_profile_id") = StrValue(id)

\* the profile shown before had a provider with a key, the target has none
C8_Witness ==
    /\ last.op = "switchProfile"
    /\ last.err = NoError
    /\ PersistedOf(last.id) = {}
    /\ settings.providers = EmptyMap
    /\ encryptedKeys = EmptyMap
    /\ \E id \in DOMAIN view.encryptedKeys : view.encryptedKeys[id] = encrypt("sk-1", 1)
    /\ \E key \in DOMAIN providers : providers[key].apiKey = encrypt("sk-1", 1)

\* C9: a run of the migration adapter that finds the schema version already
\* set to the current version writes nothing: the persisted profiles,
\* provider configs and metadata, and the legacy records, are as before
C9_SecondRunWritesNothing ==
    [][(/\ pc = "loading"
        /\ pc' = "migrated"
        /\ getSchemaVersion(getAllData) >= CurrentVersion)
           => /\ <<profiles, providers, metadata>>' = <<profiles, providers, metadata>>
              /\ UNCHANGED legacyVars]_vars

\* the second visit after a completed migration, the adapter has run again
C9_Witness ==
    /\ session = 2
    /\ pc = "migrated"
    /\ last.op = "getMigrationStatus"
    /\ getSchemaVersion(getAllData) = CurrentVersion
    /\ {"L1", "L2"} \subseteq DOMAIN profiles
    /\ {"L1:openai", "L2:anthropic"} \subseteq DOMAIN providers
    /\ "L1" \in DOMAIN legacyProfiles

\* the marker is absent or older than the current version
NotMarked(s) == getSchemaVersion(s) < CurrentVersion

\* the outcome of the migration step of a visit: the phase that failed
FailedPhase == IF last'.op \in {"migrateAndCleanup", "getMigrationStatus"} THEN last'.id ELSE ""

\* C10 as stated: whatever read or write fails during the migration, the
\* marker is not set and no legacy record is deleted
C10_AnyFailureAborts ==
    [][(pc = "loading" /\ pc' = "migrated" /\ NotMarked(getAllData) /\ FailedPhase /= "")
           => /\ NotMarked([profiles |-> profiles', providers |-> providers',
                            metadata |-> metadata'])
              /\ UNCHANGED legacyVars]_vars

\* C10: when the read of the legacy data, the copy of a profile or of a
\* provider config, or the write of the marker fails, the marker is not set
\* and no legacy record is deleted; a failure while the legacy metadata is
\* copied is swallowed, and the migration then completes
C10_CopyFailureAborts ==
    [][(pc = "loading" /\ pc' = "migrated" /\ NotMarked(getAllData))
           => /\ FailedPhase \in {"read", "profiles", "providers", "marker"}
                  => /\ NotMarked([profiles |-> profiles', providers |-> providers',
                                   metadata |-> metadata'])
                     /\ UNCHANGED legacyVars
              /\ (FailedPhase = "metadata" /\ last'.err = NoError)
                  => /\ ~NotMarked([profiles |-> profiles', providers |-> providers',
                                    metadata |-> metadata'])
                     /\ {"L1:openai", "L2:anthropic"} \subseteq DOMAIN providers'
              /\ (FailedPhase = "metadata" /\ last'.err /= NoError)
                  => /\ NotMarked([profiles |-> profiles', providers |-> providers',
                                   metadata |-> metadata'])
                     /\ UNCHANGED legacyVars]_vars

\* the copy of the provider configs failed after the profiles were written;
\* the second visit finds the marker unset and all the legacy records
C10_Witness ==
    /\ session = 2
    /\ pc = "loading"
    /\ NotMarked(getAllData)
    /\ {"L1", "L2"} \subseteq DOMAIN profiles
    /\ providers = EmptyMap
    /\ legacyProviders = LegacyTwo.providers
    /\ legacyProfiles = LegacyTwo.profiles

C12_DefaultSelfHealing ==
    [][(/\ last'.op = "getDefaultProfile"
        /\ last'.err = NoError
        /\ StorageGetDefaultProfile)
           => LET before == DefaultProfiles(getAllData)
                  id == last'.id
              IN  /\ before = {}
                         => /\ id \notin DOMAIN profiles
                            /\ DOMAIN profiles' = DOMAIN profiles \cup {id}
                            /\ \A other \in DOMAIN profiles : profiles'[other] = profiles[other]
                            /\ profiles'[id].name = <<"D", "e", "f", "a", "u", "l", "t">>
                            /\ profiles'[id].isDefault
                            /\ profiles = EmptyMap => Cardinality(DOMAIN profiles') = 1
                            /\ <<providers, metadata>>' = <<providers, metadata>>
                  /\ before /= {}
                         => /\ id \in before
                            /\ <<profiles, providers, metadata>>'
                                   = <<profiles, providers, metadata>>
                  /\ (last.op = "getDefaultProfile" /\ last.err = NoError)
                         => id = last.id]_vars

\* the default created on fresh storage is returned again after another
\* profile was created
C12_Witness ==
    /\ last.op = "getDefaultProfile"
    /\ last.err = NoError
    /\ last.id = "u1"
    /\ profiles["u1"].isDefault
    /\ profiles["u1"].name = <<"D", "e", "f", "a", "u", "l", "t">>
    /\ DefaultProfiles(getAllData) = {"u1"}
    /\ "u2" \in DOMAIN profiles

\* C13 as stated: createProfile({name, description}) then getProfile(id)
\* yields the name trimmed and cut to 50 characters, the description as it
\* was passed, and isDefault = false
C13_CreateThenGetVerbatim ==
    [][\A input \in NamedInputs, written \in BOOLEAN :
           (StorageCreateProfileOf(input, written) /\ last'.err = NoError)
               => LET after == [profiles |-> profiles', providers |-> providers',
                                metadata |-> metadata']
                  IN  \E p \in getProfile(after, last'.id) :
                          /\ getProfile(after, last'.id) = {p}
                          /\ p.name = Slice(Trim(input.name), NameMax)
                          /\ p.description = input.description
                          /\ ~p.isDefault]_vars

\* C13: createProfile({name, description}) then getProfile(id) yields the
\* name trimmed and cut to 50 characters, the description trimmed (an
\* undefined description stays undefined), and isDefault = false
C13_CreateThenGet ==
    [][\A input \in NamedInputs, written \in BOOLEAN :
           (StorageCreateProfileOf(input, written) /\ last'.err = NoError)
               => LET after == [profiles |-> profiles', providers |-> providers',
                                metadata |-> metadata']
                  IN  \E p \in getProfile(after, last'.id) :
                          /\ getProfile(after, last'.id) = {p}
                          /\ p.id = last'.id
                          /\ p.name = Slice(Trim(input.name), NameMax)
                          /\ Len(p.name) <= NameMax
                          /\ p.description = OptTrim(input.description)
                          /\ ~p.isDefault]_vars

\* a profile was created from a padded name longer than the limit and a
\* padded description
C13_Witness ==
    /\ last.op = "createProfile"
    /\ last.err = NoError
    /\ profiles[last.id].name = [i \in 1..NameMax |-> "x"]
    /\ profiles[last.id].description = <<"d">>

C15_DecryptNeverRejects ==
    \A v \in {view, Closure}, id \in DOMAIN PROVIDERS :
        LET key == getDecryptedApiKey(v, id)
            cached == id \in DOMAIN v.encryptedKeys /\ v.encryptedKeys[id] /= NullKey
        IN  /\ key /= DecryptionError
            /\ ~cached => key = ""
            /\ (cached /\ decrypt(v.encryptedKeys[id]) = DecryptionError) => key = ""
            /\ (cached /\ decrypt(v.encryptedKeys[id]) /= DecryptionError)
                   => key = decrypt(v.encryptedKeys[id]) /\ key \in Plaintexts

\* the migrated blob of the rendered provider does not decrypt
C15_Witness ==
    /\ pc = "ready"
    /\ "openai" \in DOMAIN view.encryptedKeys
    /\ view.encryptedKeys["openai"] = Garbage
    /\ decrypt(Garbage) = DecryptionError
    /\ getDecryptedApiKey(view, "openai") = ""
    /\ getDecryptedApiKey(view, "anthropic") = ""

HttpsUrls == { "https://api.example.com" }

CustomConfigs(p) == { k \in DOMAIN p : p[k].providerType = "custom" }

\* C16 as stated: createCustomProvider persists a custom-<uuid> config only
\* if baseUrl is an HTTPS URL and models is non-empty; for any other input it
\* fails and the provider-configs bucket is unchanged
C16_ContextValidates ==
    [][\A input \in DirectInputs, failAt \in 0..2 :
           CtxCreateCustomProviderOf(input, failAt)
               => IF input.baseUrl \in HttpsUrls /\ input.models /= <<>>
                  THEN TRUE
                  ELSE last'.err /= NoError /\ providers' = providers]_vars

\* C16: the dialog persists a custom-<uuid> config only if the trimmed base
\* URL is an HTTPS URL and the model list has a non-empty entry; for any other
\* form it reports an error and the provider-configs bucket is unchanged; what
\* it persists carries the trimmed name, the URL and the parsed models
C16_DialogValidates ==
    [][\A form \in CustomForms, failAt \in 0..2 :
           HandleCreateCustomProviderOf(form, failAt)
               => IF /\ Text(Trim(form.baseUrl)) \in HttpsUrls
                     /\ \E i \in 1..Len(form.models) : form.models[i] \notin {" ", ","}
                     /\ Trim(form.name) /= <<>>
                  THEN last'.err = NoError
                         => \E k \in CustomConfigs(providers') \ DOMAIN providers :
                              /\ CustomConfigs(providers') = CustomConfigs(providers) \cup {k}
                              /\ providers'[k].providerId = last'.id
                              /\ providers'[k].baseUrl = Text(Trim(form.baseUrl))
                              /\ providers'[k].customName = Text(Trim(form.name))
                              /\ providers'[k].customModels = <<"llama", "mistral">>
                              /\ providers'[k].model = "llama"
                              /\ ~providers'[k].enabled
                  ELSE last'.err /= NoError /\ providers' = providers]_vars

\* the dialog has created an HTTPS provider
C16_Witness ==
    /\ last.op = "handleCreateCustomProvider"
    /\ last.err = NoError
    /\ \E k \in CustomConfigs(providers) :
           /\ providers[k].providerId = last.id
           /\ providers[k].baseUrl \in HttpsUrls
           /\ providers[k].customModels = <<"llama", "mistral">>

\* C17: in any 60-second window at most 5 passcode verifications that end in
\* failure are performed (counted since the last successful login), for any
\* interleaving of login calls including overlapping ones
C17_AtMostFiveFailuresPerWindow ==
    \A i \in DOMAIN failedAt :
        Cardinality({ j \in DOMAIN failedAt :
                          failedAt[i] <= failedAt[j] /\ failedAt[j] < failedAt[i] + WINDOW_MS })
            <= MAX_ATTEMPTS

\* C18: export/import is a verbatim round trip: in every reachable storage
\* state S, importing the export of S leaves the three buckets equal to S
\* (also when a write of the import fails), and an import that resolves, made
\* in whatever state storage has reached since, makes the three buckets equal
\* to the state the document was exported from
C18_RoundTrip ==
    [][/\ \A failAt \in 0..3 :
              importData(getAllData, TRUE, exportData(getAllData), failAt).data = getAllData
       /\ (last'.op = "importData" /\ last'.arg = "backup" /\ last'.err = NoError)
              => /\ getAllData' = backup.of
                 /\ exportData(getAllData') = backup.json]_vars

\* a backup holding a profile without description and a provider without base
\* URL has been restored
C18_Witness ==
    /\ last.op = "importData"
    /\ last.arg = "backup"
    /\ last.err = NoError
    /\ getAllData = backup.of
    /\ providers /= EmptyMap
    /\ \E id \in DOMAIN profiles : profiles[id].description = Undefined
    /\ \E k \in DOMAIN providers : providers[k].baseUrl = UndefinedStr

ProviderOperations ==
    {"addProvider", "updateProvider", "toggleProvider", "deleteProvider",
     "createCustomProvider"}

\* the configs persisted for other profiles than P
ConfigsOfOthers(p, P) == [k \in {x \in DOMAIN p : p[x].profileId /= P} |-> p[k]]

\* C19: a provider operation (addProvider, updateProvider, toggleProvider,
\* deleteProvider, createCustomProvider) invoked while profile P is the
\* current profile of the rendered page leaves every persisted config whose
\* profileId differs from P unchanged, and persists none for another profile
C19_ProfileIsolation ==
    [][(last'.op \in ProviderOperations /\ calls' = calls + 1)
           => IF view.currentProfile = {}
              THEN providers' = providers
              ELSE \A P \in {q.id : q \in view.currentProfile} :
                       ConfigsOfOthers(providers', P) = ConfigsOfOthers(providers, P)]_vars

\* a provider of the second profile was deleted while the first profile holds
\* a config of the same provider
C19_Witness ==
    /\ last.op = "deleteProvider"
    /\ last.id = "openai"
    /\ last.err = NoError
    /\ currentProfile /= {}
    /\ \A q \in currentProfile : q.id = "p2"
    /\ CompositeKey("p2", "openai") \notin DOMAIN providers
    /\ CompositeKey("p1", "openai") \in DOMAIN providers
    /\ CompositeKey("p2", "anthropic") \in DOMAIN providers

\* C20: in every reachable state every persisted profile has a name of at
\* most 50 characters, for any sequence of createProfile and updateProfile
\* calls with names of arbitrary length
C20_NamesAtMostFifty ==
    \A id \in DOMAIN profiles : Len(profiles[id].name) <= NameMax

\* C21: initialization always terminates: from Loading the context reaches
\* Ready or fallback mode with isLoading = false; and when it reaches Ready
\* the current profile is the profile named by active_profile_id if that
\* profile exists and a default profile otherwise, and active_profile_id is
\* then the current profile's id
C21_InitializationTerminates ==
    /\ (pc = "loading") ~> (pc \in {"ready", "fallback"} /\ ~isLoading)
    /\ [][(pc /= "ready" /\ pc' = "ready")
              => LET active == getMetadata(getAllData, "active_profile_id")
                     named == IF active.type = "string" /\ active.str \in DOMAIN profiles
                              THEN {profiles[active.str]} ELSE {}
                 IN  /\ ~isLoading' /\ ~isFallbackMode'
                     /\ Cardinality(currentProfile') = 1
                     /\ \A p \in currentProfile' :
                            /\ p.id \in DOMAIN profiles' /\ profiles'[p.id] = p
                            /\ named /= {} => p \in named
                            /\ named = {} => p.isDefault
                            /\ (named = {} /\ DefaultProfiles(getAllData) /= {})
                                   => p.id \in DOMAIN profiles
                            /\ getMetadata(getAllData', "active_profile_id") = StrValue(p.id)
                            /\ settings'.profileId = p.id]_vars

\* the visit ended Ready on the non-default profile that active_profile_id names
C21_Witness ==
    /\ pc = "ready"
    /\ ~isLoading
    /\ last.op = "initializeData"
    /\ \A p \in currentProfile : p.id = "p2" /\ ~p.isDefault
    /\ currentProfile /= {}
    /\ getMetadata(getAllData, "active_profile_id") = StrValue("p2")

\* C22: deleteProfile writes the provider-configs bucket before the profiles
\* bucket: no step of deleteProfile, interrupted or not, leaves the profile
\* deleted while configs of that profile are still stored
C22_ConfigsRemovedBeforeProfile ==
    [][\A id \in DOMAIN profiles, failAt \in 0..2 :
           (StorageDeleteProfileOf(id, failAt) /\ id \notin DOMAIN profiles')
               => \A key \in DOMAIN providers' : providers'[key].profileId /= id]_vars

\* C23: after updateProvider(id, {apiKey: K}) completed, the in-memory
\* settings and the key cache hold the key of id only encrypted: the key
\* cache holds the ciphertext and no in-memory provider field equals K
C23_OnlyEncryptedInMemory ==
    [][\A id \in ProviderIds, config \in ApiKeyUpdates, iv \in IVs, written \in BOOLEAN :
           (CtxUpdateProviderOf(id, config, iv, written) /\ last'.err = NoError)
               => /\ id \in DOMAIN encryptedKeys'
                  /\ encryptedKeys'[id] = encrypt(config.apiKey, iv)
                  /\ encryptedKeys'[id] /= PlainKey(config.apiKey)
                  /\ \A p \in DOMAIN settings'.providers :
                         settings'.providers[p].apiKey /= config.apiKey]_vars

\* the in-memory model, baseUrl and enabled of every provider of the current
\* profile are those of its persisted record
FieldsMirrored ==
    \A profile \in currentProfile :
        \A id \in DOMAIN settings.providers :
            LET key == CompositeKey(profile.id, id)
            IN  /\ key \in DOMAIN providers
                /\ settings.providers[id].model = providers[key].model
                /\ settings.providers[id].baseUrl = providers[key].baseUrl
                /\ settings.providers[id].enabled = providers[key].enabled

\* the summary of every profile carries the counts computed from storage
SummariesMirrored ==
    \A summary \in profilesWithProviders :
        LET persisted == PersistedOf(summary.profile.id)
        IN  /\ summary.providerCount = Cardinality(persisted)
            /\ summary.enabledProviderCount
                   = Cardinality({key \in persisted : providers[key].enabled})

\* C24: in the Ready state, between operations, the in-memory provider
\* settings and the per-profile summaries equal what storage holds
C24_MemoryMirrorsStorage ==
    pc = "ready" => FieldsMirrored /\ SummariesMirrored

\* C25: every entry of the 'ai-providers' bucket is stored under the key
\* profileId:providerId built from its own fields, so no two records share
\* a (profileId, providerId) pair
C25_KeyedByOwnFields ==
    /\ \A key \in DOMAIN providers :
           key = CompositeKey(providers[key].profileId, providers[key].providerId)
    /\ \A k1, k2 \in DOMAIN providers :
           (/\ providers[k1].profileId = providers[k2].profileId
            /\ providers[k1].providerId = providers[k2].providerId) => k1 = k2

\* the ids of a list
Listed(list) == {list[i] : i \in DOMAIN list}

\* C26: deleteProvider(id) of a provider persisted for the current profile
\* removes exactly the record currentProfile:id from storage and id from the
\* in-memory providers, the enabled list and the key cache, every other
\* provider staying as it was; without such a record it rejects with the
\* not-found error and storage is unchanged
C26_DeleteProviderFrame ==
    [][\A id \in ProviderIds, written \in BOOLEAN :
           (CtxDeleteProviderOf(id, written) /\ view.currentProfile /= {})
               => LET profile == CHOOSE p \in view.currentProfile : TRUE
                      key == CompositeKey(profile.id, id)
                  IN  IF key \in DOMAIN providers /\ written
                      THEN /\ last'.err = NoError
                           /\ DOMAIN providers' = DOMAIN providers \ {key}
                           /\ \A k \in DOMAIN providers' : providers'[k] = providers[k]
                           /\ profiles' = profiles /\ metadata' = metadata
                           /\ DOMAIN settings'.providers = DOMAIN settings.providers \ {id}
                           /\ \A o \in DOMAIN settings'.providers :
                                  settings'.providers[o] = settings.providers[o]
                           /\ Listed(settings'.enabledProviders)
                                  = Listed(settings.enabledProviders) \ {id}
                           /\ DOMAIN encryptedKeys' = DOMAIN encryptedKeys \ {id}
                           /\ \A o \in DOMAIN encryptedKeys' :
                                  encryptedKeys'[o] = encryptedKeys[o]
                      ELSE /\ last'.err = IF key \in DOMAIN providers
                                          THEN QuotaExceeded ELSE ProviderConfigNotFound
                           /\ Buckets' = Buckets
                           /\ settings' = settings
                           /\ encryptedKeys' = encryptedKeys]_vars

\* a provider was deleted while another one of the profile stayed
C26_Witness ==
    /\ last.op = "deleteProvider"
    /\ last.err = NoError
    /\ pc = "ready"
    /\ DOMAIN settings.providers /= {}
    /\ \E profile \in currentProfile :
           /\ CompositeKey(profile.id, last.id) \notin DOMAIN providers
           /\ ProviderKeysOfProfile(getAllData, profile.id) /= {}

\* C27: toggleProvider(id) flips only the enabled flag: the persisted apiKey
\* blob, model, baseUrl and provider type of the record are the same before
\* and after the call, from whichever render the callback is taken
C27_ToggleFlipsOnlyEnabled ==
    [][\A id \in ProviderIds, written \in BOOLEAN :
           (/\ CtxToggleProviderOf(id, written)
            /\ last'.err = NoError
            /\ \E profile \in view.currentProfile :
                   CompositeKey(profile.id, id) \in DOMAIN providers)
               => LET key == CompositeKey((CHOOSE p \in view.currentProfile : TRUE).id, id)
                  IN  /\ key \in DOMAIN providers'
                      /\ providers'[key].apiKey = providers[key].apiKey
                      /\ providers'[key].model = providers[key].model
                      /\ providers'[key].baseUrl = providers[key].baseUrl
                      /\ providers'[key].providerType = providers[key].providerType]_vars

\* C28: the in-memory enabledProviders has no duplicates and lists exactly
\* the providers whose in-memory config has enabled = true
C28_EnabledListExact ==
    /\ \A i, j \in DOMAIN settings.enabledProviders :
           settings.enabledProviders[i] = settings.enabledProviders[j] => i = j
    /\ Listed(settings.enabledProviders)
           = {id \in DOMAIN settings.providers : settings.providers[id].enabled}

\* C29: referential integrity: the profileId of every persisted provider
\* config is the id of a persisted profile
C29_ConfigsBelongToProfiles ==
    \A key \in DOMAIN providers : providers[key].profileId \in DOMAIN profiles

\* C30: in the Ready state, between operations, currentProfile is a profile
\* that exists in storage and settings.profileId is its id
C30_CurrentProfileExists ==
    pc = "ready"
        => /\ Cardinality(currentProfile) = 1
           /\ \A profile \in currentProfile :
                  /\ profile.id \in DOMAIN profiles
                  /\ settings.profileId = profile.id

====
